---- MODULE Spec2Model ----
(***************************************************************************)
(* Model of the RogueTech macOS installer                                  *)
(* (roguetech_install_macos.py, basic_json_merge.py).                      *)
(*                                                                         *)
(*   Spec        the Installer object driven through set_option and        *)
(*               perform_install, the install loop taken one task at a     *)
(*               time                                                      *)
(*   OptionSpec  set_option alone, its arguments and the flags before the  *)
(*               call recorded                                             *)
(*   MergeSpec   _merge_dicts / merge_dicts applied to bounded documents   *)
(*   AppSpec     the handlers of _App (navigate, toggle, reset, install)   *)
(*               called in any order, what was called recorded             *)
(*   RunSpec     _App.run: the keys of a batch handled one by one          *)
(*   MainSpec    _main: cache_roguetech_files, then the mode asked for     *)
(*   LoadSpec    get_configuration_tree on documents whose tasks may name  *)
(*               a group that is not declared                              *)
(*   CopySpec    one Install or MultiComponentInstall task on file trees   *)
(*   BootSpec    the boot-config tasks on the text of boot.config          *)
(*   ViewSpec    the handlers of _App over configurations whose shapes     *)
(*               differ between the default and the installed file         *)
(***************************************************************************)
EXTENDS Integers, Sequences, FiniteSets, TLC

(***************************************************************************)
(* JSON documents.  A dict is the sequence of its items in insertion order *)
(* (Python dicts iterate in insertion order), each item [k |-> key,        *)
(* v |-> value]; a value is a scalar [s |-> n], a list [l |-> <<..>>] or a *)
(* dict [d |-> <<items>>].                                                 *)
(***************************************************************************)
Scalar(n) == [s |-> n]
List(xs) == [l |-> xs]
Dict(items) == [d |-> items]

is_dict(value) == "d" \in DOMAIN value
is_list(value) == "l" \in DOMAIN value

Keys(a) == {a[i].k : i \in DOMAIN a}
\* key in a
HasKey(a, key) == \E i \in DOMAIN a : a[i].k = key
\* a[key]
Get(a, key) == a[CHOOSE i \in DOMAIN a : a[i].k = key].v
\* a[key] = value, for a key already in a (the item keeps its position)
Put(a, key, value) ==
    [i \in DOMAIN a |-> IF a[i].k = key THEN [k |-> key, v |-> value] ELSE a[i]]
\* a[key] = value, for a key not in a
Insert(a, key, value) == Append(a, [k |-> key, v |-> value])

\* a_value.extend(b_value)
extend_replaces(a_value, b_value) == b_value
extend_prepends(a_value, b_value) == b_value \o a_value
extend(a_value, b_value) == a_value \o b_value

\* What _merge_dicts leaves in a when it raises: the changes made so far.
raise_rolls_back(a0, a) == [ok |-> FALSE, val |-> a0]
raise_ValueError(a0, a) == [ok |-> FALSE, val |-> a]

(***************************************************************************)
(* _merge_dicts(a, b): merges b into a in place.  The result is            *)
(* [ok |-> the call returned, val |-> a as the call left it]; a0 is a as   *)
(* it was when the call started, items the items of b not yet visited.     *)
(***************************************************************************)
RECURSIVE merge_loop(_, _, _)
merge_loop(a0, a, items) ==
    IF items = <<>> THEN [ok |-> TRUE, val |-> a]
    ELSE LET key == Head(items).k
             b_value == Head(items).v
         IN  IF ~HasKey(a, key)
             THEN merge_loop(a0, Insert(a, key, b_value), Tail(items))
             ELSE LET a_value == Get(a, key)
                  IN  IF is_dict(a_value)
                      THEN IF ~is_dict(b_value)
                           THEN raise_ValueError(a0, a)
                           ELSE LET sub == merge_loop(a_value.d, a_value.d, b_value.d)
                                IN  IF sub.ok
                                    THEN merge_loop(a0, Put(a, key, Dict(sub.val)),
                                                    Tail(items))
                                    ELSE raise_ValueError(
                                             a0, Put(a, key, Dict(sub.val)))
                      ELSE IF is_list(a_value)
                      THEN IF ~is_list(b_value)
                           THEN raise_ValueError(a0, a)
                           ELSE merge_loop(a0,
                                    Put(a, key, List(extend(a_value.l, b_value.l))),
                                    Tail(items))
                      ELSE merge_loop(a0, Put(a, key, b_value), Tail(items))

merge_dicts(a, b) == merge_loop(a, a, b)

(***************************************************************************)
(* The documents merged in MergeSpec: dicts of at most MaxKeys items over  *)
(* DocKeys, in either insertion order, whose values are scalars, lists or  *)
(* dicts of scalars and lists.  The third document of a chain of two       *)
(* merges has at most MaxThirdKeys items.                                  *)
(***************************************************************************)
MaxKeys == 2
MaxThirdKeys == 1
DocKeys == {"a", "b"}
InnerKeys == {"x"}
Leaves == {Scalar(1), List(<<1>>), List(<<2>>)}

\* The dicts of at most n items with keys in keys and values in values.
DictsOver(keys, values, n) ==
    UNION { { items \in [1..m -> [k : keys, v : values]] :
                \A i, j \in 1..m : items[i].k = items[j].k => i = j }
            : m \in 0..n }

InnerDicts == {Dict(items) : items \in DictsOver(InnerKeys, Leaves, MaxKeys)}
Docs == DictsOver(DocKeys, Leaves \cup InnerDicts, MaxKeys)
ThirdDocs == DictsOver(DocKeys, Leaves \cup InnerDicts, MaxThirdKeys)


(***************************************************************************)
(* The configuration document (RtConfig.xml as xmltodict parses it): the   *)
(* option groups of RogueTechConfig.Options.InstallOption and the tasks of *)
(* RogueTechConfig.Tasks.InstallTask, in declaration order.  requiredOption*)
(* "" stands for an absent requiredOption (group.get gives None).  Only    *)
(* isSelected changes after loading; it is kept per task index.            *)
(***************************************************************************)
InstallOption ==
    << [optionId |-> "G1", optionType |-> "ExclusiveOption", requiredOption |-> ""],
       [optionId |-> "G2", optionType |-> "MultiSelectOption", requiredOption |-> "B"],
       [optionId |-> "G3", optionType |-> "ExclusiveOption", requiredOption |-> "C"],
       [optionId |-> "G4", optionType |-> "SingleOption", requiredOption |-> ""] >>

InstallTask ==
    << [Id |-> "A", optionGroupId |-> "G1", jobType |-> "Install", canSelect |-> "true"],
       [Id |-> "C", optionGroupId |-> "G2", jobType |-> "BasicJsonMerge", canSelect |-> "true"],
       [Id |-> "B", optionGroupId |-> "G1", jobType |-> "RunProcessAndInstall", canSelect |-> "true"],
       [Id |-> "CommanderPortraitLoader", optionGroupId |-> "G2", jobType |-> "Install",
        canSelect |-> "true"],
       [Id |-> "E", optionGroupId |-> "G3", jobType |-> "MThreadBootConfig", canSelect |-> "true"],
       [Id |-> "F", optionGroupId |-> "G3", jobType |-> "DefaultBootConfig", canSelect |-> "true"],
       [Id |-> "N", optionGroupId |-> "G4", jobType |-> "NoOp", canSelect |-> "false"],
       [Id |-> "U", optionGroupId |-> "G4", jobType |-> "Patch", canSelect |-> "false"] >>

TaskIx == DOMAIN InstallTask
Flags == {"true", "false"}

\* The isSelected flags of the default RtConfig.xml in the RogueTech cache.
DefaultSelection ==
    [i \in TaskIx |-> IF InstallTask[i].Id \in {"A", "E", "N", "U"}
                      THEN "true" ELSE "false"]

_TASK_BLACKLIST == {"modtekInstall", "perfixInstall", "CommanderPortraitLoader"}

\* Arguments a caller can pass to set_option: the ids of the groups and of the
\* selectable tasks of the document, and ids that are not in it.
GroupIdArgs == {InstallOption[g].optionId : g \in DOMAIN InstallOption} \cup {"G9"}
TaskIdArgs ==
    {InstallTask[i].Id : i \in {j \in TaskIx : InstallTask[j].canSelect = "true"}}
        \cup {"Z"}

\* task_index[group_id] of _index_tasks_by_option_group: the indices of the
\* tasks whose optionGroupId is group_id (a defaultdict: empty for the rest).
_index_tasks_by_option_group(group_id) ==
    {i \in TaskIx : InstallTask[i].optionGroupId = group_id}

\* task_id in _index_tasks_by_id(config)
HasTask(task_id) == \E i \in TaskIx : InstallTask[i].Id = task_id
\* _index_tasks_by_id(config)[task_id]: a later task of the same Id replaces
\* an earlier one.
_index_tasks_by_id(task_id) ==
    CHOOSE i \in TaskIx :
        /\ InstallTask[i].Id = task_id
        /\ \A j \in TaskIx : InstallTask[j].Id = task_id => j <= i

\* group_id in groups, groups[group_id] of _extract_configuration_tree
HasGroup(group_id) == \E g \in DOMAIN InstallOption : InstallOption[g].optionId = group_id
_extract_configuration_tree(group_id) ==
    InstallOption[CHOOSE g \in DOMAIN InstallOption :
                    /\ InstallOption[g].optionId = group_id
                    /\ \A h \in DOMAIN InstallOption :
                          InstallOption[h].optionId = group_id => h <= g]

\* Installer.is_option_enabled(config, option_id): the first task of that Id
\* decides; False when there is none.
is_option_enabled(sel, option_id) ==
    /\ \E i \in TaskIx : InstallTask[i].Id = option_id
    /\ LET i == CHOOSE i \in TaskIx :
                   /\ InstallTask[i].Id = option_id
                   /\ \A j \in TaskIx : InstallTask[j].Id = option_id => i <= j
       IN  sel[i] = "true"

(***************************************************************************)
(* Installer.set_option(config, group_id, task_id, new_value) on the flags *)
(* sel: [result |-> "ok" or the exception raised, sel |-> the flags after].*)
(***************************************************************************)
\* raise ...: the call ends with the exception, the flags as they are.
raise_after_clearing(sel, error) ==
    [result |-> error, sel |-> [i \in TaskIx |-> "false"]]
raise(sel, error) == [result |-> error, sel |-> sel]

\* for task in task_group: task["isSelected"] = "true" if task["Id"] == task_id
\* else "false"
select_only_keeps_siblings(sel, task_group, task_id) ==
    [i \in TaskIx |-> IF i \in task_group /\ InstallTask[i].Id = task_id
                      THEN "true" ELSE sel[i]]
select_only(sel, task_group, task_id) ==
    [i \in TaskIx |-> IF i \in task_group
                      THEN IF InstallTask[i].Id = task_id THEN "true" ELSE "false"
                      ELSE sel[i]]

\* task_index[task_id]["isSelected"] = "true" if new_value else "false"
select_one_clears_siblings(sel, task_id, new_value) ==
    LET t == _index_tasks_by_id(task_id)
    IN  [i \in TaskIx |->
           IF i = t THEN IF new_value THEN "true" ELSE "false"
           ELSE IF InstallTask[i].optionGroupId = InstallTask[t].optionGroupId
                THEN "false" ELSE sel[i]]
select_one(sel, task_id, new_value) ==
    [sel EXCEPT ![_index_tasks_by_id(task_id)] = IF new_value THEN "true" ELSE "false"]

set_option(sel, group_id, task_id, new_value) ==
    IF ~HasGroup(group_id) THEN raise(sel, "KeyError")
    ELSE LET option_type == _extract_configuration_tree(group_id).optionType
             task_group == _index_tasks_by_option_group(group_id)
         IN  IF option_type = "ExclusiveOption"
             THEN IF ~new_value
                  THEN raise(sel, "ValueError")
                  ELSE [result |-> "ok", sel |-> select_only(sel, task_group, task_id)]
             ELSE IF option_type = "MultiSelectOption"
             THEN IF ~HasTask(task_id)
                  THEN raise(sel, "KeyError")
                  ELSE [result |-> "ok", sel |-> select_one(sel, task_id, new_value)]
             ELSE raise(sel, "ValueError")

\* _get_selected_tasks(config): the selected tasks in declaration order.
get_tasks_ignoring_flags(sel) ==
    LET F[i \in 0..Len(InstallTask)] ==
            IF i = 0 THEN <<>> ELSE Append(F[i - 1], i)
    IN  F[Len(InstallTask)]
_get_selected_tasks(sel) ==
    LET F[i \in 0..Len(InstallTask)] ==
            IF i = 0 THEN <<>>
            ELSE IF sel[i] = "true" THEN Append(F[i - 1], i) ELSE F[i - 1]
    IN  F[Len(InstallTask)]


(***************************************************************************)
(* Task execution.  What a task does to the file system is logged as       *)
(* effects [task |-> Id, act |-> what was done]; the target of the         *)
(* BasicJsonMerge task is kept as a document.  A handler gives             *)
(* [raised |-> "none" or the exception, effects |-> ..., json |-> ...].    *)
(***************************************************************************)
Effect(id, act) == [task |-> id, act |-> act]

\* The target file of the BasicJsonMerge task as found at start, and the
\* source file in the RogueTech cache.
JsonTargets == { <<[k |-> "jobs", v |-> Scalar(1)]>>,
                 <<[k |-> "jobs", v |-> List(<<1>>)]>> }
JsonSource == <<[k |-> "jobs", v |-> Scalar(1)]>>

\* _normal_install / _multi_component_install: the filtered copy.
_normal_install(id, json) ==
    [raised |-> "none", effects |-> <<Effect(id, "copy")>>, json |-> json]

\* _basic_json_merge -> _merge_json_files(infile_path, outfile_path): the
\* target is rewritten only after _merge_dicts returned.
_merge_json_files(id, new_data, old_data) ==
    LET merged == merge_dicts(old_data, new_data)
    IN  IF merged.ok
        THEN [raised |-> "none", effects |-> <<Effect(id, "merge")>>,
              json |-> merged.val]
        ELSE [raised |-> "ValueError", effects |-> <<>>, json |-> old_data]

\* _set_boot_config_gfx_jobs(job_count)
_set_boot_config_gfx_jobs(id, job_count, json) ==
    [raised |-> "none",
     effects |-> <<Effect(id, IF job_count # 0 THEN "boot1" ELSE "boot0")>>,
     json |-> json]

\* _run_process_and_install(task): mono64 <installer> in the source
\* directory, then the copy of that directory.
run_process_copies_anyway(id, exit_code, json) ==
    [raised |-> IF exit_code # 0 THEN "CalledProcessError" ELSE "none",
     effects |-> <<Effect(id, "run"), Effect(id, "copy")>>, json |-> json]
_run_process_and_install(id, exit_code, json) ==
    IF exit_code # 0
    THEN [raised |-> "CalledProcessError", effects |-> <<Effect(id, "run")>>,
          json |-> json]
    ELSE [raised |-> "none", effects |-> <<Effect(id, "run"), Effect(id, "copy")>>,
          json |-> json]

\* return without a handler: the blacklisted, NoOp and unsupported tasks.
skipped_raises(json) == [raised |-> "ValueError", effects |-> <<>>, json |-> json]
Skipped(json) == [raised |-> "none", effects |-> <<>>, json |-> json]

\* Installer._install_task(task) for the task of index i; exit_code is the
\* exit status of the external installer, json the merge target on disk.
_install_task(i, exit_code, json) ==
    LET task_id == InstallTask[i].Id
        jobtype == InstallTask[i].jobType
    IN  IF task_id \in _TASK_BLACKLIST THEN Skipped(json)
        ELSE IF jobtype = "NoOp" THEN Skipped(json)
        ELSE IF jobtype = "Install" THEN _normal_install(task_id, json)
        ELSE IF jobtype = "MultiComponentInstall" THEN _normal_install(task_id, json)
        ELSE IF jobtype = "BasicJsonMerge"
             THEN _merge_json_files(task_id, JsonSource, json)
        ELSE IF jobtype = "DefaultBootConfig"
             THEN _set_boot_config_gfx_jobs(task_id, 0, json)
        ELSE IF jobtype = "MThreadBootConfig"
             THEN _set_boot_config_gfx_jobs(task_id, 1, json)
        ELSE IF jobtype = "RunProcessAndInstall"
             THEN _run_process_and_install(task_id, exit_code, json)
        ELSE Skipped(json)

\* Installer._load_config(preserve_existing): the installed RtConfig.xml when
\* asked for and present, the default one otherwise.
load_default_config(file, preserve_existing) == DefaultSelection
_load_config(file, preserve_existing) ==
    IF preserve_existing /\ file.exists THEN file.sel ELSE DefaultSelection


(***************************************************************************)
(* Copying.  A text of the configuration (sourcePath, targetPath,          *)
(* excludePaths) is the sequence of its tokens: "," and " " are the        *)
(* characters, any other token is a file name, and names that follow each  *)
(* other are the steps of a path.  xmltodict gives None for an empty       *)
(* element, so the empty text stands for None.  A node of a file tree is   *)
(* a file, a directory (its entries by name) or Missing.                   *)
(***************************************************************************)
Range(seq) == {seq[k] : k \in DOMAIN seq}

\* str.split(sep): the pieces between the separators, one more than there
\* are separators.
RECURSIVE split(_, _)
split(s, sep) ==
    IF \A k \in DOMAIN s : s[k] # sep THEN <<s>>
    ELSE LET k == CHOOSE j \in DOMAIN s : s[j] = sep /\ \A h \in 1..(j - 1) : s[h] # sep
         IN  <<SubSeq(s, 1, k - 1)>> \o split(SubSeq(s, k + 1, Len(s)), sep)

\* str.strip(): without the blanks at both ends.
RECURSIVE strip(_)
strip(s) ==
    IF s # <<>> /\ Head(s) = " " THEN strip(Tail(s))
    ELSE IF s # <<>> /\ s[Len(s)] = " " THEN strip(SubSeq(s, 1, Len(s) - 1))
    ELSE s

File(data) == [kind |-> "file", data |-> data]
Dir(entries) == [kind |-> "dir", entries |-> entries]
Missing == [kind |-> "none"]
Entries(node) == IF node.kind = "dir" THEN node.entries ELSE <<>>
EntryOf(node, name) ==
    IF name \in DOMAIN Entries(node) THEN node.entries[name] ELSE Missing

\* os.path.join(root, path): the node the path leads to.
RECURSIVE node_at(_, _)
node_at(root, path) ==
    IF path = <<>> THEN root
    ELSE node_at(EntryOf(root, Head(path)), Tail(path))

\* The tree with node at path; directories on the way are made
\* (os.makedirs(..., exist_ok=True)).
RECURSIVE put(_, _, _)
put(root, path, node) ==
    IF path = <<>> THEN node
    ELSE Dir([n \in DOMAIN Entries(root) \cup {Head(path)} |->
                IF n = Head(path) THEN put(EntryOf(root, n), Tail(path), node)
                ELSE root.entries[n]])

\* shutil.copytree(src, dst, dirs_exist_ok=True): every entry of src, hidden
\* ones too, is copied into dst; directories merge, files are overwritten,
\* what only dst has stays.
RECURSIVE copytree(_, _)
copytree(src, dst) ==
    Dir([n \in DOMAIN src.entries \cup DOMAIN Entries(dst) |->
           IF n \notin DOMAIN src.entries THEN dst.entries[n]
           ELSE IF src.entries[n].kind = "dir"
                THEN copytree(src.entries[n], EntryOf(dst, n))
           ELSE src.entries[n]])

\* The names of the model that start with a dot.
DotNames == {".git"}
\* glob.glob(os.path.join(source_path, "*")): "*" matches no name that starts
\* with a dot.
glob(source) == {n \in DOMAIN source.entries : n \notin DotNames}

Copied(mod_dir) == [raised |-> "none", mod_dir |-> mod_dir]
CopyRaised(error, mod_dir) == [raised |-> error, mod_dir |-> mod_dir]

\* _filtered_copy(source_path, target_path, excludes) from the tree rtcache
\* into the tree mod_dir.
_filtered_copy(rtcache, mod_dir, source_path, target_path, excludes) ==
    LET source == node_at(rtcache, source_path)
        target == node_at(mod_dir, target_path)
    IN  IF source.kind = "dir"
        THEN LET items == {basename \in glob(source) : <<basename>> \notin excludes}
                 made == [basename \in items \cup DOMAIN Entries(target) |->
                            IF basename \notin items THEN target.entries[basename]
                            ELSE IF source.entries[basename].kind = "dir"
                                 THEN copytree(source.entries[basename],
                                               EntryOf(target, basename))
                            ELSE source.entries[basename]]
             IN  Copied(put(mod_dir, target_path, Dir(made)))
        ELSE IF source.kind = "file"
        THEN \* shutil.copy2(source_path, target_path)
             IF target.kind = "dir"
             THEN Copied(put(mod_dir, Append(target_path, source_path[Len(source_path)]),
                             source))
             ELSE IF node_at(mod_dir, SubSeq(target_path, 1, Len(target_path) - 1)).kind
                        = "dir"
             THEN Copied(put(mod_dir, target_path, source))
             ELSE CopyRaised("FileNotFoundError", mod_dir)
        ELSE \* logging.warning("Missing expected file ...")
             Copied(mod_dir)

\* Installer._get_excludes(task); None has no split.
with_optionals(exclude_paths) ==
    IF <<"Optional">> \in exclude_paths
    THEN exclude_paths \cup {<<"Optionals">>}
    ELSE exclude_paths
_get_excludes(task) ==
    IF task.excludePaths = <<>> THEN [raised |-> "AttributeError", exclude_paths |-> {}]
    ELSE [raised |-> "none",
          exclude_paths |-> with_optionals(Range(split(task.excludePaths, ",")))]

CopyCall(source_path, target_path, before, after) ==
    [source_path |-> source_path, target_path |-> target_path,
     before |-> before, after |-> after]
\* What a copy task gives: the tree it left and the _filtered_copy calls it
\* made, each with the target tree before and after.
CopyDone(raised, mod_dir, calls) ==
    [raised |-> raised, mod_dir |-> mod_dir, calls |-> calls]

\* Installer._normal_install(task) with the files it copies.
normal_install(rtcache, mod_dir, task) ==
    LET excludes == _get_excludes(task)
        source_path == task.sourcePath
        target_path == task.targetPath
        r == _filtered_copy(rtcache, mod_dir, source_path, target_path,
                            excludes.exclude_paths)
    IN  IF excludes.raised # "none" THEN CopyDone(excludes.raised, mod_dir, <<>>)
        ELSE CopyDone(r.raised, r.mod_dir,
                      <<CopyCall(source_path, target_path, mod_dir, r.mod_dir)>>)

\* zip(source_paths, target_paths): as many pairs as the shorter list has.
Shorter(a, b) == IF Len(a) < Len(b) THEN Len(a) ELSE Len(b)
zip(a, b) == [k \in 1..Shorter(a, b) |-> <<a[k], b[k]>>]

\* The for loop of _multi_component_install over the pairs not yet copied.
RECURSIVE copy_pairs(_, _, _, _, _)
copy_pairs(rtcache, mod_dir, pairs, exclude_paths, calls) ==
    IF pairs = <<>> THEN CopyDone("none", mod_dir, calls)
    ELSE LET source_path == Head(pairs)[1]
             target_path == Head(pairs)[2]
             r == _filtered_copy(rtcache, mod_dir, source_path, target_path,
                                 exclude_paths)
             made == Append(calls, CopyCall(source_path, target_path, mod_dir,
                                            r.mod_dir))
         IN  IF r.raised # "none" THEN CopyDone(r.raised, r.mod_dir, made)
             ELSE copy_pairs(rtcache, r.mod_dir, Tail(pairs), exclude_paths, made)

\* Installer._multi_component_install(task) with the files it copies.
source_paths(task) ==
    [k \in DOMAIN split(task.sourcePath, ",") |-> strip(split(task.sourcePath, ",")[k])]
target_paths(task) ==
    [k \in DOMAIN split(task.targetPath, ",") |-> strip(split(task.targetPath, ",")[k])]
multi_component_install(rtcache, mod_dir, task) ==
    LET excludes == _get_excludes(task)
    IN  IF excludes.raised # "none" THEN CopyDone(excludes.raised, mod_dir, <<>>)
        ELSE copy_pairs(rtcache, mod_dir, zip(source_paths(task), target_paths(task)),
                        excludes.exclude_paths, <<>>)

(***************************************************************************)
(* boot.config.  Its text is the sequence of its tokens: "\n" ends a line, *)
(* the two setting keys with their "=" are one token each, any other token *)
(* is other text.                                                          *)
(***************************************************************************)
NativeGfxJobs == "gfx-enable-native-gfx-jobs="
GfxJobs == "gfx-enable-gfx-jobs="

\* infile.readlines(): the lines with their "\n"; the last one has none when
\* the text does not end with one.
RECURSIVE readlines(_)
readlines(text) ==
    IF text = <<>> THEN <<>>
    ELSE IF \A k \in DOMAIN text : text[k] # "\n" THEN <<text>>
    ELSE LET k == CHOOSE j \in DOMAIN text :
                     text[j] = "\n" /\ \A h \in 1..(j - 1) : text[h] # "\n"
         IN  <<SubSeq(text, 1, k)>> \o readlines(SubSeq(text, k + 1, Len(text)))

\* outfile.writelines(contents): the lines one after the other, nothing added.
RECURSIVE writelines(_)
writelines(contents) ==
    IF contents = <<>> THEN <<>>
    ELSE Head(contents) \o writelines(Tail(contents))

startswith(line, prefix) == line # <<>> /\ Head(line) = prefix
filter(x) == ~startswith(x, NativeGfxJobs) /\ ~startswith(x, GfxJobs)

\* Installer._set_boot_config_gfx_jobs(job_count) on the text of boot.config.
set_boot_config_gfx_jobs(text, job_count) ==
    LET contents == SelectSeq(readlines(text), filter)
    IN  writelines(IF job_count # 0
                   THEN contents \o << <<GfxJobs, "1", "\n">>,
                                       <<NativeGfxJobs, ToString(job_count), "\n">> >>
                   ELSE Append(contents, <<NativeGfxJobs, "\n">>))

(***************************************************************************)
(* _App, the interactive controller.  Its _config is the configuration in  *)
(* memory; _current_group_index and _cursor_row are 0-based as in the      *)
(* code.                                                                   *)
(***************************************************************************)
clamp_unbounded(val, min_val, max_val) == val
clamp(val, min_val, max_val) ==
    IF val < min_val THEN min_val
    ELSE IF val > max_val THEN max_val
    ELSE val

\* list(filter(lambda x: x["canSelect"] == "true", self._task_index[group_id]))
selectable_tasks(group_id) ==
    LET F[i \in 0..Len(InstallTask)] ==
            IF i = 0 THEN <<>>
            ELSE IF /\ InstallTask[i].optionGroupId = group_id
                    /\ InstallTask[i].canSelect = "true"
                 THEN Append(F[i - 1], i) ELSE F[i - 1]
    IN  F[Len(InstallTask)]

\* self._groups as reset builds it: the (group, tasks) pairs of the groups
\* that have selectable tasks, in the order of the document.
_groups ==
    LET F[g \in 0..Len(InstallOption)] ==
            IF g = 0 THEN <<>>
            ELSE LET tasks == selectable_tasks(InstallOption[g].optionId)
                 IN  IF tasks = <<>> THEN F[g - 1]
                     ELSE Append(F[g - 1], [group |-> InstallOption[g], tasks |-> tasks])
    IN  F[Len(InstallOption)]

\* _App.navigate_group(delta): the cursor after the call.
navigate_group(group_index, cursor_row, delta) ==
    LET new_index == clamp(group_index + delta, 0, Len(_groups) - 1)
    IN  IF new_index = group_index
        THEN [group_index |-> group_index, cursor_row |-> cursor_row]
        ELSE [group_index |-> new_index, cursor_row |-> 0]

\* _App.navigate_task(delta): the cursor after the call.
navigate_task(group_index, cursor_row, delta) ==
    LET tasks == _groups[group_index + 1].tasks
        new_index == clamp(cursor_row + delta, 0, Len(tasks) - 1)
    IN  IF new_index = cursor_row
        THEN [group_index |-> group_index, cursor_row |-> cursor_row]
        ELSE [group_index |-> group_index, cursor_row |-> new_index]

\* _App.toggle_task() on the flags sel with the cursor at group_index,
\* cursor_row: [result, sel] as set_option gives them.
toggle_ignores_gate(sel, required_option) == FALSE
toggle_is_gated(sel, required_option) ==
    required_option # "" /\ ~is_option_enabled(sel, required_option)

toggle_task(sel, group_index, cursor_row) ==
    LET group == _groups[group_index + 1].group
        tasks == _groups[group_index + 1].tasks
    IN  IF cursor_row + 1 \notin DOMAIN tasks THEN raise(sel, "IndexError")
        ELSE LET task == tasks[cursor_row + 1]
                 option_type == group.optionType
                 current_val == sel[task] = "true"
             IN  IF toggle_is_gated(sel, group.requiredOption)
                 THEN [result |-> "ok", sel |-> sel]
                 ELSE IF option_type = "ExclusiveOption"
                 THEN IF current_val THEN [result |-> "ok", sel |-> sel]
                      ELSE set_option(sel, group.optionId, InstallTask[task].Id, TRUE)
                 ELSE IF option_type = "MultiSelectOption"
                 THEN set_option(sel, group.optionId, InstallTask[task].Id, ~current_val)
                 ELSE raise(sel, "ValueError")

\* self._keymap: the handler a key is bound to and its argument.
Action(op, delta, preserve_existing) ==
    [op |-> op, delta |-> delta, preserve_existing |-> preserve_existing]
KeymapKeys ==
    {"left", "right", "up", "down", "pageup", "pagedown", "home", "end", "space",
     "enter", "d", "r", "i"}
_keymap(key) ==
    CASE key = "left" -> Action("navigate_group", -1, FALSE)
      [] key = "right" -> Action("navigate_group", 1, FALSE)
      [] key = "up" -> Action("navigate_task", -1, FALSE)
      [] key = "down" -> Action("navigate_task", 1, FALSE)
      [] key = "pageup" -> Action("navigate_task", -5, FALSE)
      [] key = "pagedown" -> Action("navigate_task", 5, FALSE)
      [] key = "home" -> Action("navigate_task", -1000000000, FALSE)
      [] key = "end" -> Action("navigate_task", 1000000000, FALSE)
      [] key \in {"space", "enter"} -> Action("toggle_task", 0, FALSE)
      [] key = "d" -> Action("reset", 0, FALSE)
      [] key = "r" -> Action("reset", 0, TRUE)
      [] key = "i" -> Action("install", 0, FALSE)


(***************************************************************************)
(* cache_roguetech_files.  The paths it makes are directories, symbolic    *)
(* links and clones of git repositories; st is [fs |-> which of them        *)
(* exist, log |-> the changes made to the file system so far].             *)
(***************************************************************************)
\* self.mod_dir, the three links, self.rtlcache, self.rtcache, self.cabcache,
\* the CAB support repository, a repository of its manifest, and the cabs
\* link, in the order cache_roguetech_files comes to them.
CachePaths ==
    << "Resources/Mods", "Resources/Data", "../Mods", "MacOS/Mods", "RtlCache",
       "RtlCache/RtCache", "RtlCache/CabCache", "CabCache/CabSupRepoData",
       "CabCache/CabRepo", "Mods/cabs" >>
Paths == {CachePaths[k] : k \in DOMAIN CachePaths}
Change(op, path) == [op |-> op, path |-> path]
Made(st, op, path) ==
    [fs |-> [st.fs EXCEPT ![path] = TRUE], log |-> Append(st.log, Change(op, path))]

\* os.makedirs(path, exist_ok=True)
makedirs(st, path) == IF st.fs[path] THEN st ELSE Made(st, "makedirs", path)

\* symlink_dir_if_needed(target, link)
symlink_dir_if_needed(st, link) == IF st.fs[link] THEN st ELSE Made(st, "symlink", link)

\* Installer.git(target_path, repo_url) with self.check_updates
git(st, target_path, check_updates) ==
    IF st.fs[target_path]
    THEN IF ~check_updates THEN st
         ELSE [fs |-> st.fs, log |-> Append(st.log, Change("fetch", target_path))]
    ELSE Made(st, "clone", target_path)

\* Installer._cache_community_asset_bundles()
_cache_community_asset_bundles(st, check_updates) ==
    LET s1 == makedirs(st, "RtlCache/CabCache")
        s2 == git(s1, "CabCache/CabSupRepoData", check_updates)
    IN  git(s2, "CabCache/CabRepo", check_updates)

\* Installer.cache_roguetech_files()
cache_roguetech_files(st, check_updates) ==
    LET s1 == makedirs(st, "Resources/Mods")
        s2 == symlink_dir_if_needed(s1, "Resources/Data")
        s3 == symlink_dir_if_needed(s2, "../Mods")
        s4 == symlink_dir_if_needed(s3, "MacOS/Mods")
        s5 == makedirs(s4, "RtlCache")
        s6 == git(s5, "RtlCache/RtCache", check_updates)
        s7 == _cache_community_asset_bundles(s6, check_updates)
    IN  symlink_dir_if_needed(s7, "Mods/cabs")

(***************************************************************************)
(* Loading a configuration document.  raw is a document as xmltodict gives *)
(* it: [InstallOption |-> the option groups, InstallTask |-> the tasks].   *)
(***************************************************************************)
\* _index_tasks_by_option_group(config)[group_id] on the tasks of a
\* document: the positions of the tasks whose optionGroupId is group_id.
index_by_option_group(install_tasks, group_id) ==
    {i \in DOMAIN install_tasks : install_tasks[i].optionGroupId = group_id}

\* Installer.get_configuration_tree: _load_config, then
\* _extract_configuration_tree: the groups by optionId and the task index.
get_configuration_tree(raw) ==
    [loaded |-> TRUE,
     groups |-> {raw.InstallOption[g].optionId : g \in DOMAIN raw.InstallOption},
     task_index |->
        [group_id \in {raw.InstallTask[i].optionGroupId : i \in DOMAIN raw.InstallTask}
            |-> index_by_option_group(raw.InstallTask, group_id)]]

\* _get_selected_tasks(config) on the tasks of a document.
selected_tasks(install_tasks) ==
    LET F[i \in 0..Len(install_tasks)] ==
            IF i = 0 THEN <<>>
            ELSE IF install_tasks[i].isSelected = "true"
                 THEN Append(F[i - 1], i) ELSE F[i - 1]
    IN  F[Len(install_tasks)]


(***************************************************************************)
(* State.                                                                  *)
(*   isSelected  the isSelected flag of every task of the configuration    *)
(*               held in memory, by task index                             *)
(*   lastCall    the last call made on the Installer and how it ended      *)
(*   observed    OptionSpec only: the arguments of the last set_option     *)
(*               call and the flags as they were when it started           *)
(*   pc          "idle", "installing" (inside perform_install's loop) or   *)
(*               "crashed" (an exception left perform_install)             *)
(*   dry_run     Installer.dry_run                                         *)
(*   installed   the RtConfig.xml persisted under the Mods directory       *)
(*   run_config  perform_install's local config (its flags)                *)
(*   tasks       perform_install's local list of selected tasks            *)
(*   executed    the tasks _install_task was called for, in call order     *)
(*   effects     what the running perform_install did to the file system   *)
(*   jsonTarget  the target file of the BasicJsonMerge task                *)
(*   mA .. mStage  the documents and results of MergeSpec                  *)
(*   _current_group_index, _cursor_row  the cursor of _App                 *)
(*   appOp       AppSpec only: the last handler of _App called, its        *)
(*               argument, and the flags and the cursor when it started    *)
(*   _running    _App._running                                             *)
(*   input_queue the keys listen_keyboard delivered and run has not yet    *)
(*               handled                                                   *)
(*   run_pc      where _App.run is: "off" (not called), "listening",       *)
(*               "handling" (in its for loop) or "exited"                  *)
(*   handled     RunSpec only: the key _handle_key was last called for,    *)
(*               the handler it called and _running when it was called     *)
(*   fs          which of the paths of cache_roguetech_files exist         *)
(*   mutations   the changes _main made to those paths, in order           *)
(*   args        the command line: noupdate, list, and gui (the GUI        *)
(*               modules are there and --no-gui is not given); --dry-run   *)
(*               is dry_run                                                *)
(*   main_pc     where _main is                                            *)
(*   raw         LoadSpec: the configuration document to load              *)
(*   tree        LoadSpec: what get_configuration_tree gave                *)
(*   plan        LoadSpec: what _get_selected_tasks gave                   *)
(*   rtcache     CopySpec: the tree of RtCache, where copies come from     *)
(*   mod_dir     CopySpec: the tree of the Mods directory                  *)
(*   copy_task   CopySpec: the Install or MultiComponentInstall task       *)
(*   copies      CopySpec: the _filtered_copy calls the task made          *)
(*   copy_pc     CopySpec: "ready", "done" or "crashed"                    *)
(*   boot_config BootSpec: the text of boot.config                         *)
(*   boot_original  BootSpec: the text of boot.config at the start         *)
(*   boot_log    BootSpec: the boot-config tasks applied, each with the    *)
(*               text it left                                              *)
(*   rt_files    ViewSpec: the groups of the default RtConfig.xml and of   *)
(*               the installed one                                         *)
(*   view        ViewSpec: _App._config and _App._groups                   *)
(*   view_pc     ViewSpec: "running" or "crashed"                          *)
(***************************************************************************)
VARIABLES isSelected, lastCall, observed, pc, dry_run, installed, run_config, tasks,
          executed, effects, jsonTarget,
          mA, mB, mC, mBase, mRet, mBA, mLeft, mRight, mStage,
          _current_group_index, _cursor_row, appOp,
          _running, input_queue, run_pc, handled,
          fs, mutations, args, main_pc,
          raw, tree, plan,
          rtcache, mod_dir, copy_task, copies, copy_pc,
          boot_config, boot_original, boot_log,
          rt_files, view, view_pc

installerVars == << isSelected, lastCall, observed, pc, dry_run, installed, run_config,
                    tasks, executed, effects, jsonTarget >>
mergeVars == << mA, mB, mC, mBase, mRet, mBA, mLeft, mRight, mStage >>
cursorVars == << _current_group_index, _cursor_row >>
runVars == << _running, input_queue, run_pc, handled >>
appVars == << cursorVars, appOp, runVars >>
mainVars == << fs, mutations, args, main_pc >>
loadVars == << raw, tree, plan >>
copyVars == << rtcache, mod_dir, copy_task, copies, copy_pc >>
bootVars == << boot_config, boot_original, boot_log >>
viewVars == << rt_files, view, view_pc >>
fileVars == << copyVars, bootVars, viewVars >>
otherVars == << appVars, mainVars, loadVars, fileVars >>
vars == << installerVars, mergeVars, otherVars >>

ExclusiveGroups ==
    {InstallOption[g].optionId : g \in {h \in DOMAIN InstallOption :
                                   InstallOption[h].optionType = "ExclusiveOption"}}
SelectedIn(sel, group_id) ==
    {i \in _index_tasks_by_option_group(group_id) : sel[i] = "true"}
ExactlyOneSelected(sel) ==
    \A group_id \in ExclusiveGroups : Cardinality(SelectedIn(sel, group_id)) = 1

\* Installed configurations found at start: none, or one written earlier.
InstalledAtStart ==
    { [exists |-> FALSE, sel |-> DefaultSelection],
      [exists |-> TRUE, sel |-> DefaultSelection],
      [exists |-> TRUE,
       sel |-> [i \in TaskIx |-> IF InstallTask[i].Id \in {"B", "C", "F", "N", "U"}
                                 THEN "true" ELSE "false"]] }

NoCall == [op |-> "none", result |-> "none"]
\* run_config outside perform_install, where there is no such local.
NoConfig == [i \in TaskIx |-> "false"]
NotObserved == [group_id |-> "", task_id |-> "", new_value |-> FALSE, pre |-> NoConfig]
NoResult == [ok |-> FALSE, val |-> <<>>]

NoPre == [sel |-> NoConfig, group_index |-> 0, cursor_row |-> 0]
NoAppOp == [op |-> "none", delta |-> 0, preserve_existing |-> FALSE, pre |-> NoPre]
NoKey == [key |-> "", op |-> "none", running |-> FALSE]
\* run was not called.
RunOff ==
    /\ _running = FALSE
    /\ input_queue = <<>>
    /\ run_pc = "off"
    /\ handled = NoKey
\* The first n paths of cache_roguetech_files exist: an earlier run came
\* that far.
Created(n) == [path \in Paths |-> \E k \in 1..n : CachePaths[k] = path]
NoArgs == [noupdate |-> FALSE, list |-> FALSE, gui |-> FALSE]
\* _main is not what runs: the caches are there.
MainOff ==
    /\ fs = Created(Len(CachePaths))
    /\ mutations = <<>>
    /\ args = NoArgs
    /\ main_pc = "off"
NoDocument == [InstallOption |-> <<>>, InstallTask |-> <<>>]
NoTree == [loaded |-> FALSE, groups |-> {}, task_index |-> <<>>]
LoadOff ==
    /\ raw = NoDocument
    /\ tree = NoTree
    /\ plan = <<>>
NoTask == [jobType |-> "", sourcePath |-> <<>>, targetPath |-> <<>>,
           excludePaths |-> <<>>]
\* No copy task runs.
CopyOff ==
    /\ rtcache = Missing
    /\ mod_dir = Missing
    /\ copy_task = NoTask
    /\ copies = <<>>
    /\ copy_pc = "off"
\* No boot-config task runs.
BootOff ==
    /\ boot_config = <<>>
    /\ boot_original = <<>>
    /\ boot_log = <<>>
NoFiles == [default |-> <<>>, installed |-> <<>>, exists |-> FALSE]
NoView == [config |-> <<>>, groups |-> <<>>]
ViewOff ==
    /\ rt_files = NoFiles
    /\ view = NoView
    /\ view_pc = "off"
FilesOff ==
    /\ CopyOff
    /\ BootOff
    /\ ViewOff

\* No _App was made.
AppOff ==
    /\ _current_group_index = 0
    /\ _cursor_row = 0
    /\ appOp = NoAppOp
    /\ RunOff

MergeIdle ==
    /\ mA = <<>> /\ mB = <<>> /\ mC = <<>> /\ mBase = <<>>
    /\ mRet = NoResult /\ mBA = NoResult /\ mLeft = NoResult /\ mRight = NoResult
    /\ mStage = "off"

Init ==
    /\ installed \in InstalledAtStart
    /\ isSelected = _load_config(installed, TRUE)
    /\ lastCall = NoCall
    /\ observed = NotObserved
    /\ pc = "idle"
    /\ dry_run \in BOOLEAN
    /\ run_config = NoConfig
    /\ tasks = <<>>
    /\ executed = <<>>
    /\ effects = <<>>
    /\ jsonTarget \in JsonTargets
    /\ MergeIdle
    /\ AppOff
    /\ MainOff
    /\ LoadOff
    /\ FilesOff

\* installer.set_option(config, group_id, task_id, new_value) on the
\* configuration in memory; an exception is the caller's to handle.
SetOptionCall(group_id, task_id, new_value) ==
    /\ pc = "idle"
    /\ LET r == set_option(isSelected, group_id, task_id, new_value)
       IN  /\ isSelected' = r.sel
           /\ lastCall' = [op |-> "set_option", result |-> r.result]
    /\ UNCHANGED << pc, dry_run, installed, run_config, tasks, executed, effects,
                    jsonTarget, mergeVars, otherVars >>

SetOption(group_id, task_id, new_value) ==
    /\ SetOptionCall(group_id, task_id, new_value)
    /\ UNCHANGED observed

InstallCall(result) ==
    [op |-> "perform_install", result |-> result]

\* perform_install before its loop: the config handed in is written to the
\* installed RtConfig.xml; when none was handed in, the default RtConfig.xml
\* of the cache is copied there.
write_config_skipped(passed, config) ==
    [file |-> [exists |-> FALSE, sel |-> DefaultSelection], effects |-> <<>>]
write_installed_config(passed, config) ==
    [file |-> [exists |-> TRUE, sel |-> IF passed THEN config ELSE DefaultSelection],
     effects |-> <<Effect("RtConfig.xml", "write")>>]

\* if self.dry_run: "Dry-run mode, bypassing install"
never_bypassing_install(flag) == FALSE
bypassing_install(flag) == flag

\* perform_install(config) up to its loop: passed says whether a config was
\* handed in (the interactive commit) or not (the non-interactive install);
\* injector_exit is the exit status of ModTekInjector.
PerformInstallCall(passed, injector_exit) ==
    /\ pc = "idle"
    /\ UNCHANGED << isSelected, observed, dry_run, jsonTarget, mergeVars >>
    /\ IF bypassing_install(dry_run)
       THEN /\ lastCall' = InstallCall("ok")
            /\ tasks' = <<>> /\ executed' = <<>> /\ effects' = <<>>
            /\ UNCHANGED << pc, installed, run_config >>
       ELSE IF injector_exit # 0
       THEN /\ lastCall' = InstallCall("CalledProcessError")
            /\ pc' = "crashed"
            /\ tasks' = <<>> /\ executed' = <<>>
            /\ effects' = <<Effect("ModTek", "inject")>>
            /\ UNCHANGED << installed, run_config >>
       ELSE LET config == IF passed THEN isSelected
                          ELSE _load_config(installed, TRUE)
                written == write_installed_config(passed, config)
            IN  /\ lastCall' = InstallCall("running")
                /\ pc' = "installing"
                /\ run_config' = config
                /\ installed' = written.file
                /\ tasks' = _get_selected_tasks(config)
                /\ executed' = <<>>
                /\ effects' = <<Effect("ModTek", "inject")>> \o written.effects

PerformInstall(passed, injector_exit) ==
    /\ PerformInstallCall(passed, injector_exit)
    /\ UNCHANGED otherVars

\* One turn of perform_install's loop: _install_task for the next task;
\* an exception leaves the loop and perform_install.
InstallNextTask(exit_code) ==
    /\ pc = "installing"
    /\ Len(executed) < Len(tasks)
    /\ LET i == tasks[Len(executed) + 1]
           r == _install_task(i, exit_code, jsonTarget)
       IN  /\ executed' = Append(executed, i)
           /\ effects' = effects \o r.effects
           /\ jsonTarget' = r.json
           /\ IF r.raised # "none"
              THEN /\ pc' = "crashed"
                   /\ lastCall' = InstallCall(r.raised)
              ELSE UNCHANGED << pc, lastCall >>
    /\ UNCHANGED << isSelected, observed, dry_run, installed, run_config, tasks,
                    mergeVars, otherVars >>

\* The loop is over: perform_install returns and its locals are gone.
PerformInstallReturn ==
    /\ pc = "installing"
    /\ Len(executed) = Len(tasks)
    /\ pc' = "idle"
    /\ lastCall' = InstallCall("ok")
    /\ run_config' = NoConfig
    /\ tasks' = <<>> /\ executed' = <<>> /\ effects' = <<>>
    /\ UNCHANGED << isSelected, observed, dry_run, installed, jsonTarget, mergeVars,
                    otherVars >>

(***************************************************************************)
(* MergeSpec: _merge_dicts applied to the documents.  mBase is the object  *)
(* passed as a (mutated in place), mRet what the call gave back.           *)
(***************************************************************************)
InstallerIdle ==
    /\ isSelected = DefaultSelection
    /\ lastCall = NoCall
    /\ observed = NotObserved
    /\ pc = "idle"
    /\ dry_run = FALSE
    /\ installed = [exists |-> FALSE, sel |-> DefaultSelection]
    /\ run_config = NoConfig
    /\ tasks = <<>> /\ executed = <<>> /\ effects = <<>>
    /\ jsonTarget = JsonSource
    /\ AppOff
    /\ MainOff

MergeInit ==
    /\ InstallerIdle
    /\ LoadOff
    /\ FilesOff
    /\ mA \in Docs
    /\ mB \in Docs
    /\ mC = <<>>
    /\ mBase = mA
    /\ mRet = NoResult /\ mBA = NoResult /\ mLeft = NoResult /\ mRight = NoResult
    /\ mStage = "loaded"

\* The outcome of a call as the caller sees it: the dict returned, or the
\* exception.
Returned(r) == IF r.ok THEN r ELSE NoResult

\* _merge_dicts(a, b), as _merge_json_files calls it on old_data, new_data.
MergeAB ==
    /\ mStage = "loaded"
    /\ LET r == merge_dicts(mBase, mB)
       IN  /\ mBase' = r.val
           /\ mRet' = Returned(r)
    /\ mStage' = "merged"
    /\ UNCHANGED << mA, mB, mC, mBA, mLeft, mRight, installerVars, otherVars >>

\* _merge_dicts(b, a) on fresh copies: the arguments swapped.
MergeBA ==
    /\ mStage = "merged"
    /\ mBA' = Returned(merge_dicts(mB, mA))
    /\ mStage' = "swapped"
    /\ UNCHANGED << mA, mB, mC, mBase, mRet, mLeft, mRight, installerVars, otherVars >>

\* _merge_dicts(_merge_dicts(a, b), c), on the base MergeAB left, and
\* _merge_dicts(a, _merge_dicts(b, c)) on fresh copies; an exception of the
\* inner call is the outcome of the chain.
MergeThird(c) ==
    /\ mStage = "swapped"
    /\ mC' = c
    /\ mLeft' = IF mRet.ok THEN Returned(merge_dicts(mBase, c)) ELSE NoResult
    /\ mRight' = LET bc == merge_dicts(mB, c)
                 IN  IF bc.ok THEN Returned(merge_dicts(mA, bc.val)) ELSE NoResult
    /\ mStage' = "chained"
    /\ UNCHANGED << mA, mB, mBase, mRet, mBA, installerVars, otherVars >>

MergeNext ==
    \/ MergeAB
    \/ MergeBA
    \/ \E c \in ThirdDocs : MergeThird(c)

MergeSpec == MergeInit /\ [][MergeNext]_vars

Next ==
    \/ \E group_id \in GroupIdArgs, task_id \in TaskIdArgs, new_value \in BOOLEAN :
          SetOption(group_id, task_id, new_value)
    \/ \E passed \in BOOLEAN, injector_exit \in {0, 1} :
          PerformInstall(passed, injector_exit)
    \/ \E exit_code \in {0, 1} : InstallNextTask(exit_code)
    \/ PerformInstallReturn

Spec == Init /\ [][Next]_vars

(***************************************************************************)
(* OptionSpec: set_option called with any arguments, any number of times,  *)
(* by a caller that records what it passed and the flags it started from.  *)
(***************************************************************************)
OptionInit ==
    /\ Init
    /\ dry_run = FALSE
    /\ jsonTarget = JsonSource

SetOptionObserved(group_id, task_id, new_value) ==
    /\ SetOptionCall(group_id, task_id, new_value)
    /\ observed' = [group_id |-> group_id, task_id |-> task_id,
                    new_value |-> new_value, pre |-> isSelected]

OptionNext ==
    \E group_id \in GroupIdArgs, task_id \in TaskIdArgs, new_value \in BOOLEAN :
       SetOptionObserved(group_id, task_id, new_value)

OptionSpec == OptionInit /\ [][OptionNext]_vars

(***************************************************************************)
(* AppSpec: the handlers of _App called in any order on an _App made by    *)
(* _App(installer), by a caller that records what it called and the flags  *)
(* and the cursor it started from.  An exception of a handler ends the     *)
(* session (run catches KeyboardInterrupt only).                           *)
(***************************************************************************)
GroupDeltas == {-1, 1}
TaskDeltas == {-1, 1, -5, 5, -1000000000, 1000000000}

\* _App.__init__: the cursor at 0, 0 and reset().
AppInit ==
    /\ installed \in InstalledAtStart
    /\ isSelected = _load_config(installed, TRUE)
    /\ lastCall = NoCall
    /\ observed = NotObserved
    /\ pc = "idle"
    /\ dry_run \in BOOLEAN
    /\ run_config = NoConfig
    /\ tasks = <<>> /\ executed = <<>> /\ effects = <<>>
    /\ jsonTarget \in JsonTargets
    /\ MergeIdle
    /\ _current_group_index = 0
    /\ _cursor_row = 0
    /\ appOp = NoAppOp
    /\ RunOff
    /\ MainOff
    /\ LoadOff
    /\ FilesOff

Pre == [sel |-> isSelected, group_index |-> _current_group_index,
        cursor_row |-> _cursor_row]
AppOp(op, delta, preserve_existing) ==
    [op |-> op, delta |-> delta, preserve_existing |-> preserve_existing, pre |-> Pre]

\* action(): the handler of _App the keymap gave, run to its end (install:
\* up to perform_install's loop).
Handler(action, injector_exit) ==
    /\ pc = "idle"
    /\ IF action.op = "navigate_group"
       THEN LET r == navigate_group(_current_group_index, _cursor_row, action.delta)
            IN  /\ _current_group_index' = r.group_index
                /\ _cursor_row' = r.cursor_row
                /\ UNCHANGED << installerVars, mergeVars >>
       ELSE IF action.op = "navigate_task"
       THEN LET r == navigate_task(_current_group_index, _cursor_row, action.delta)
            IN  /\ _current_group_index' = r.group_index
                /\ _cursor_row' = r.cursor_row
                /\ UNCHANGED << installerVars, mergeVars >>
       ELSE IF action.op = "toggle_task"
       THEN LET r == toggle_task(isSelected, _current_group_index, _cursor_row)
            IN  /\ isSelected' = r.sel
                /\ pc' = IF r.result = "ok" THEN "idle" ELSE "crashed"
                /\ UNCHANGED << lastCall, observed, dry_run, installed, run_config,
                                tasks, executed, effects, jsonTarget, mergeVars,
                                cursorVars >>
       ELSE IF action.op = "reset"
       THEN /\ isSelected' = _load_config(installed, action.preserve_existing)
            /\ UNCHANGED << lastCall, observed, pc, dry_run, installed, run_config,
                            tasks, executed, effects, jsonTarget, mergeVars,
                            cursorVars >>
       ELSE /\ PerformInstallCall(TRUE, injector_exit)
            /\ UNCHANGED cursorVars

NavigateGroup(delta) ==
    /\ Handler(Action("navigate_group", delta, FALSE), 0)
    /\ appOp' = AppOp("navigate_group", delta, FALSE)
    /\ UNCHANGED << runVars, mainVars, loadVars, fileVars >>

NavigateTask(delta) ==
    /\ Handler(Action("navigate_task", delta, FALSE), 0)
    /\ appOp' = AppOp("navigate_task", delta, FALSE)
    /\ UNCHANGED << runVars, mainVars, loadVars, fileVars >>

ToggleTask ==
    /\ Handler(Action("toggle_task", 0, FALSE), 0)
    /\ appOp' = AppOp("toggle_task", 0, FALSE)
    /\ UNCHANGED << runVars, mainVars, loadVars, fileVars >>

\* _App.reset(preserve_existing): the configuration is loaded again; the
\* cursor stays where it is.
Reset(preserve_existing) ==
    /\ Handler(Action("reset", 0, preserve_existing), 0)
    /\ appOp' = AppOp("reset", 0, preserve_existing)
    /\ UNCHANGED << runVars, mainVars, loadVars, fileVars >>

\* _App.install(): perform_install(self._config).
Install(injector_exit) ==
    /\ Handler(Action("install", 0, FALSE), injector_exit)
    /\ appOp' = AppOp("install", 0, FALSE)
    /\ UNCHANGED << runVars, mainVars, loadVars, fileVars >>

AppNext ==
    \/ \E delta \in GroupDeltas : NavigateGroup(delta)
    \/ \E delta \in TaskDeltas : NavigateTask(delta)
    \/ ToggleTask
    \/ \E preserve_existing \in BOOLEAN : Reset(preserve_existing)
    \/ \E injector_exit \in {0, 1} : Install(injector_exit)
    \/ \E exit_code \in {0, 1} : InstallNextTask(exit_code)
    \/ PerformInstallReturn

AppSpec == AppInit /\ [][AppNext]_vars

(***************************************************************************)
(* RunSpec: _App.run() in a dry-run session.  listen_keyboard returns      *)
(* after the callback handle_key has queued what was pressed and asked it  *)
(* to stop; run then handles every key of input_queue in order.            *)
(***************************************************************************)
MaxBatch == 2
\* The keys pressed: bound ones, the exit keys and one that is not bound.
KeysPressed == {"esc", "q", "left", "right", "up", "down", "space", "d", "r", "i", "x"}
Batches == UNION {[1..n -> KeysPressed] : n \in 1..MaxBatch}

\* _App(installer) in dry-run mode, then run() up to its loop.
RunInit ==
    /\ installed \in InstalledAtStart
    /\ isSelected = _load_config(installed, TRUE)
    /\ lastCall = NoCall
    /\ observed = NotObserved
    /\ pc = "idle"
    /\ dry_run = TRUE
    /\ run_config = NoConfig
    /\ tasks = <<>> /\ executed = <<>> /\ effects = <<>>
    /\ jsonTarget = JsonSource
    /\ MergeIdle
    /\ _current_group_index = 0
    /\ _cursor_row = 0
    /\ appOp = NoAppOp
    /\ _running = TRUE
    /\ input_queue = <<>>
    /\ run_pc = "listening"
    /\ handled = NoKey
    /\ MainOff
    /\ LoadOff
    /\ FilesOff

\* input_queue.clear(); sshkeyboard.listen_keyboard(on_press=handle_key, ...)
ListenKeyboard(batch) ==
    /\ run_pc = "listening"
    /\ input_queue' = batch
    /\ run_pc' = "handling"
    /\ handled' = NoKey
    /\ UNCHANGED << installerVars, mergeVars, cursorVars, appOp, _running, mainVars,
                    loadVars, fileVars >>

\* except KeyboardInterrupt: return
KeyboardInterrupt ==
    /\ run_pc = "listening"
    /\ run_pc' = "exited"
    /\ UNCHANGED << installerVars, mergeVars, cursorVars, appOp, _running, input_queue,
                    handled, mainVars, loadVars, fileVars >>

\* One turn of for key in input_queue: self._handle_key(key)
HandleKey ==
    /\ run_pc = "handling"
    /\ input_queue # <<>>
    /\ pc = "idle"
    /\ LET key == Head(input_queue)
       IN  /\ input_queue' = Tail(input_queue)
           /\ IF key = "esc" \/ key = "q"
              THEN /\ _running' = FALSE
                   /\ handled' = [key |-> key, op |-> "none", running |-> _running]
                   /\ UNCHANGED << installerVars, mergeVars, cursorVars >>
              ELSE IF key \in KeymapKeys
              THEN /\ Handler(_keymap(key), 0)
                   /\ handled' = [key |-> key, op |-> _keymap(key).op,
                                   running |-> _running]
                   /\ UNCHANGED _running
              ELSE /\ handled' = [key |-> key, op |-> "none", running |-> _running]
                   /\ UNCHANGED << installerVars, mergeVars, cursorVars, _running >>
    /\ UNCHANGED << appOp, run_pc, mainVars, loadVars, fileVars >>

\* After the for loop: if self._running the view is updated and the loop
\* listens again; otherwise run returns.
EndBatch ==
    /\ run_pc = "handling"
    /\ input_queue = <<>>
    /\ pc = "idle"
    /\ run_pc' = IF _running THEN "listening" ELSE "exited"
    /\ UNCHANGED << installerVars, mergeVars, cursorVars, appOp, _running, input_queue,
                    handled, mainVars, loadVars, fileVars >>

RunNext ==
    \/ \E batch \in Batches : ListenKeyboard(batch)
    \/ KeyboardInterrupt
    \/ HandleKey
    \/ EndBatch

RunSpec == RunInit /\ [][RunNext]_vars

(***************************************************************************)
(* MainSpec: one run of the program, _main(args), on a machine where an    *)
(* earlier run may have come any distance into cache_roguetech_files.      *)
(***************************************************************************)
MainInit ==
    /\ \E n \in 0..Len(CachePaths) :
          /\ fs = Created(n)
          /\ installed \in {file \in InstalledAtStart :
                                file.exists => n = Len(CachePaths)}
    /\ mutations = <<>>
    /\ args \in [noupdate : BOOLEAN, list : BOOLEAN, gui : BOOLEAN]
    /\ main_pc = "start"
    /\ dry_run \in BOOLEAN
    /\ isSelected = NoConfig
    /\ lastCall = NoCall
    /\ observed = NotObserved
    /\ pc = "idle"
    /\ run_config = NoConfig
    /\ tasks = <<>> /\ executed = <<>> /\ effects = <<>>
    /\ jsonTarget = JsonSource
    /\ MergeIdle
    /\ AppOff
    /\ LoadOff
    /\ FilesOff

\* _main up to the Installer: the install directory, mono64 and git are
\* looked for; without one of them _main returns 1.
FindPrerequisites(found) ==
    /\ main_pc = "start"
    /\ main_pc' = IF found THEN "cache" ELSE "returned 1"
    /\ UNCHANGED << fs, mutations, args, installerVars, mergeVars, appVars, loadVars, fileVars >>

\* Installer(bt_install_dir, not args.noupdate, args.dry_run) after
\* if args.dry_run: args.noupdate = True
check_updates == ~(args.noupdate \/ dry_run)

\* installer.cache_roguetech_files()
CacheRoguetechFiles ==
    /\ main_pc = "cache"
    /\ LET st == cache_roguetech_files([fs |-> fs, log |-> mutations], check_updates)
       IN  /\ fs' = st.fs
           /\ mutations' = st.log
    /\ main_pc' = "cached"
    /\ UNCHANGED << args, installerVars, mergeVars, appVars, loadVars, fileVars >>

\* app = _App(installer); return app.run()
RunApp ==
    /\ main_pc = "cached"
    /\ args.gui
    /\ main_pc' = "app"
    /\ UNCHANGED << fs, mutations, args, installerVars, mergeVars, appVars, loadVars, fileVars >>

\* installer.list_install_configuration(); return 0
ListInstallConfiguration ==
    /\ main_pc = "cached"
    /\ ~args.gui /\ args.list
    /\ main_pc' = "returned 0"
    /\ UNCHANGED << fs, mutations, args, installerVars, mergeVars, appVars, loadVars, fileVars >>

\* installer.perform_install()
MainPerformInstall(injector_exit) ==
    /\ main_pc = "cached"
    /\ ~args.gui /\ ~args.list
    /\ PerformInstallCall(FALSE, injector_exit)
    /\ main_pc' = "install"
    /\ UNCHANGED << fs, mutations, args, appVars, loadVars, fileVars >>

\* perform_install has returned: return 0
MainReturn ==
    /\ main_pc = "install"
    /\ pc = "idle"
    /\ main_pc' = "returned 0"
    /\ UNCHANGED << fs, mutations, args, installerVars, mergeVars, appVars, loadVars, fileVars >>

MainNext ==
    \/ \E found \in BOOLEAN : FindPrerequisites(found)
    \/ CacheRoguetechFiles
    \/ RunApp
    \/ ListInstallConfiguration
    \/ \E injector_exit \in {0, 1} : MainPerformInstall(injector_exit)
    \/ \E exit_code \in {0, 1} : InstallNextTask(exit_code)
    \/ PerformInstallReturn
    \/ MainReturn

MainSpec == MainInit /\ [][MainNext]_vars

(***************************************************************************)
(* LoadSpec: get_configuration_tree on a document whose tasks name any     *)
(* group, declared or not, then _get_selected_tasks on it.                 *)
(***************************************************************************)
MaxRawTasks == 2
RawOptions ==
    << [optionId |-> "G1", optionType |-> "ExclusiveOption"],
       [optionId |-> "G2", optionType |-> "MultiSelectOption"] >>
RawTasks ==
    UNION {[1..n -> [Id : {"A", "B"}, optionGroupId : {"G1", "G2", "G9"},
                     isSelected : Flags]] : n \in 1..MaxRawTasks}

LoadInit ==
    /\ raw \in [InstallOption : {RawOptions}, InstallTask : RawTasks]
    /\ tree = NoTree
    /\ plan = <<>>
    /\ InstallerIdle
    /\ MergeIdle
    /\ FilesOff

\* config, groups, task_index = installer.get_configuration_tree()
GetConfigurationTree ==
    /\ ~tree.loaded
    /\ tree' = get_configuration_tree(raw)
    /\ UNCHANGED << raw, plan, installerVars, mergeVars, appVars, mainVars, fileVars >>

\* tasks = _get_selected_tasks(config)
GetSelectedTasks ==
    /\ tree.loaded
    /\ plan = <<>>
    /\ plan' = selected_tasks(raw.InstallTask)
    /\ UNCHANGED << raw, tree, installerVars, mergeVars, appVars, mainVars, fileVars >>

LoadNext ==
    \/ GetConfigurationTree
    \/ GetSelectedTasks

LoadSpec == LoadInit /\ [][LoadNext]_vars


(***************************************************************************)
(* CopySpec: _install_task for one Install or MultiComponentInstall task,  *)
(* from a RtCache whose directory a has any of the entries SourceNames     *)
(* into a Mods directory some of whose directories an earlier install or   *)
(* the user made.  Entries of the same name are of the same kind on both   *)
(* sides.                                                                  *)
(***************************************************************************)
SourceNames == {"x", "Optional", "Optionals", ".git"}
TargetNames == {"x", "Optional", "keep"}
SourceEntry(name) ==
    IF name = "x" THEN File("new") ELSE Dir("s" :> File("new"))
TargetEntry(name) ==
    IF name \in {"x", "keep"} THEN File("old") ELSE Dir("o" :> File("old"))
SourceDirs == {Dir([n \in S |-> SourceEntry(n)]) : S \in SUBSET SourceNames}
TargetDirs == {Dir([n \in S |-> TargetEntry(n)]) : S \in SUBSET TargetNames}
RtCaches ==
    {Dir(("a" :> A) @@ ("b" :> Dir("y" :> File("new"))) @@ ("f" :> File("new"))) :
        A \in SourceDirs}
ModDirs ==
    {Dir(<<>>)}
      \cup {Dir("t" :> T) : T \in TargetDirs}
      \cup {Dir(("t" :> T) @@ ("u" :> Dir("keep" :> File("old")))) : T \in TargetDirs}

SourcePathArgs ==
    { <<"a">>, <<"f">>, <<"m">>, <<"a", ",", "b">>, <<"a", ",", " ", "b">>,
      <<"a", ",", "b", ",", "f">> }
TargetPathArgs ==
    { <<"t">>, <<"t", ",", "u">>, <<"t", ",", " ", "u">>, <<"t", ",", "u", ",", "v">> }
ExcludeArgs ==
    { <<>>, <<"x">>, <<"Optional">>, <<"x", ",", "Optional">> }
CopyTasks ==
    [jobType : {"Install", "MultiComponentInstall"}, sourcePath : SourcePathArgs,
     targetPath : TargetPathArgs, excludePaths : ExcludeArgs]

CopyInit ==
    /\ rtcache \in RtCaches
    /\ mod_dir \in ModDirs
    /\ copy_task \in CopyTasks
    /\ copies = <<>>
    /\ copy_pc = "ready"
    /\ InstallerIdle
    /\ MergeIdle
    /\ LoadOff
    /\ BootOff
    /\ ViewOff

CopyReturn(r) ==
    /\ mod_dir' = r.mod_dir
    /\ copies' = r.calls
    /\ copy_pc' = IF r.raised = "none" THEN "done" ELSE "crashed"
    /\ UNCHANGED << rtcache, copy_task, installerVars, mergeVars, appVars, mainVars,
                    loadVars, bootVars, viewVars >>

\* _install_task(task) where task["jobType"] == "Install"
NormalInstall ==
    /\ copy_pc = "ready"
    /\ copy_task.jobType = "Install"
    /\ CopyReturn(normal_install(rtcache, mod_dir, copy_task))

\* _install_task(task) where task["jobType"] == "MultiComponentInstall"
MultiComponentInstall ==
    /\ copy_pc = "ready"
    /\ copy_task.jobType = "MultiComponentInstall"
    /\ CopyReturn(multi_component_install(rtcache, mod_dir, copy_task))

CopyNext ==
    \/ NormalInstall
    \/ MultiComponentInstall

CopySpec == CopyInit /\ [][CopyNext]_vars

(***************************************************************************)
(* BootSpec: DefaultBootConfig and MThreadBootConfig tasks applied one     *)
(* after the other to a boot.config of up to MaxBootLines lines, the last  *)
(* of which may or may not end with "\n".                                  *)
(***************************************************************************)
MaxBootLines == 3
MaxBootTasks == 3
BootLines ==
    { <<>>, <<"x">>, <<"y">>, <<GfxJobs, "1">>, <<NativeGfxJobs, "1">>, <<NativeGfxJobs>> }
\* The text of the lines, each ended by "\n" but, when unended, the last.
RECURSIVE BootText(_, _)
BootText(lines, unended) ==
    IF lines = <<>> THEN <<>>
    ELSE IF Len(lines) = 1 /\ unended THEN Head(lines)
    ELSE Head(lines) \o <<"\n">> \o BootText(Tail(lines), unended)
BootFiles ==
    {BootText(lines, unended) :
        lines \in UNION {[1..n -> BootLines] : n \in 0..MaxBootLines},
        unended \in BOOLEAN}

BootInit ==
    /\ boot_config \in BootFiles
    /\ boot_original = boot_config
    /\ boot_log = <<>>
    /\ InstallerIdle
    /\ MergeIdle
    /\ LoadOff
    /\ CopyOff
    /\ ViewOff

BootTask(jobtype, job_count) ==
    /\ boot_config' = set_boot_config_gfx_jobs(boot_config, job_count)
    /\ boot_log' = Append(boot_log, [jobType |-> jobtype, contents |-> boot_config'])
    /\ UNCHANGED << boot_original, installerVars, mergeVars, appVars, mainVars,
                    loadVars, copyVars, viewVars >>

\* _install_task(task) where task["jobType"] == "DefaultBootConfig"
DefaultBootConfig ==
    /\ Len(boot_log) < MaxBootTasks
    /\ BootTask("DefaultBootConfig", 0)

\* _install_task(task) where task["jobType"] == "MThreadBootConfig"
MThreadBootConfig ==
    /\ Len(boot_log) < MaxBootTasks
    /\ BootTask("MThreadBootConfig", 1)

BootNext ==
    \/ DefaultBootConfig
    \/ MThreadBootConfig

BootSpec == BootInit /\ [][BootNext]_vars

(***************************************************************************)
(* ViewSpec: the handlers of _App over configurations of different shapes. *)
(* A configuration is the sequence of its option groups, a group the       *)
(* canSelect flags of its tasks; the default RtConfig.xml of the cache and *)
(* the installed one need not have the same shape (the cache is updated    *)
(* between runs).  The isSelected flags are those of AppSpec and are left  *)
(* out here.                                                               *)
(***************************************************************************)
MaxGroups == 3
GroupShapes == { <<"true">>, <<"true", "true">>, <<"false">> }
ConfigShapes == UNION {[1..n -> GroupShapes] : n \in 1..MaxGroups}

\* _App.reset(preserve_existing): _config and _groups from the file
\* _load_config gives, the groups without a selectable task left out.
selectable(group) == SelectSeq(group, LAMBDA canSelect : canSelect = "true")
visible_groups(config) ==
    SelectSeq([g \in DOMAIN config |-> selectable(config[g])],
              LAMBDA shown : shown # <<>>)
reset(files, preserve_existing) ==
    LET config == IF preserve_existing /\ files.exists THEN files.installed
                  ELSE files.default
    IN  [config |-> config, groups |-> visible_groups(config)]

\* _App(installer) was made: the configuration reset() loaded in __init__
\* has a group to show, the cursor is on its first task.
ViewInit ==
    /\ rt_files \in [default : ConfigShapes, installed : ConfigShapes, exists : BOOLEAN]
    /\ view = reset(rt_files, TRUE)
    /\ view.groups # <<>>
    /\ view_pc = "running"
    /\ InstallerIdle
    /\ MergeIdle
    /\ LoadOff
    /\ CopyOff
    /\ BootOff

ViewUnchanged ==
    UNCHANGED << installerVars, mergeVars, appOp, runVars, mainVars, loadVars,
                 copyVars, bootVars >>

\* _App.navigate_group(delta)
ViewNavigateGroup(delta) ==
    /\ view_pc = "running"
    /\ LET new_index == clamp(_current_group_index + delta, 0, Len(view.groups) - 1)
       IN  IF new_index = _current_group_index
           THEN UNCHANGED cursorVars
           ELSE /\ _current_group_index' = new_index
                /\ _cursor_row' = 0
    /\ UNCHANGED << rt_files, view, view_pc >>
    /\ ViewUnchanged

\* _App.navigate_task(delta); self._groups[self._current_group_index] raises
\* IndexError when there is no such group.
ViewNavigateTask(delta) ==
    /\ view_pc = "running"
    /\ IF _current_group_index + 1 \notin DOMAIN view.groups
       THEN /\ view_pc' = "crashed"
            /\ UNCHANGED cursorVars
       ELSE LET shown == view.groups[_current_group_index + 1]
                new_index == clamp(_cursor_row + delta, 0, Len(shown) - 1)
            IN  /\ _cursor_row' = new_index
                /\ UNCHANGED << _current_group_index, view_pc >>
    /\ UNCHANGED << rt_files, view >>
    /\ ViewUnchanged

\* _App.toggle_task(); tasks[self._cursor_row] raises IndexError when there
\* is no such task.
ViewToggleTask ==
    /\ view_pc = "running"
    /\ view_pc' = IF /\ _current_group_index + 1 \in DOMAIN view.groups
                     /\ _cursor_row + 1 \in DOMAIN view.groups[_current_group_index + 1]
                  THEN "running" ELSE "crashed"
    /\ UNCHANGED << rt_files, view, cursorVars >>
    /\ ViewUnchanged

\* _App.reset(preserve_existing): the cursor is not touched.
ViewReset(preserve_existing) ==
    /\ view_pc = "running"
    /\ view' = reset(rt_files, preserve_existing)
    /\ UNCHANGED << rt_files, view_pc, cursorVars >>
    /\ ViewUnchanged

\* _App.install(): perform_install(self._config) writes _config to the
\* installed RtConfig.xml.
ViewInstall ==
    /\ view_pc = "running"
    /\ rt_files' = [rt_files EXCEPT !.installed = view.config, !.exists = TRUE]
    /\ UNCHANGED << view, view_pc, cursorVars >>
    /\ ViewUnchanged

ViewNext ==
    \/ \E delta \in GroupDeltas : ViewNavigateGroup(delta)
    \/ \E delta \in TaskDeltas : ViewNavigateTask(delta)
    \/ ViewToggleTask
    \/ \E preserve_existing \in BOOLEAN : ViewReset(preserve_existing)
    \/ ViewInstall

ViewSpec == ViewInit /\ [][ViewNext]_vars

(***************************************************************************)
(* Properties of Installer.set_option (OptionSpec).                        *)
(***************************************************************************)
OptionType(group_id) == _extract_configuration_tree(group_id).optionType
RequiredOption(group_id) == _extract_configuration_tree(group_id).requiredOption
Flag(new_value) == IF new_value THEN "true" ELSE "false"
SetOptionDone == lastCall.op = "set_option"

\* C1: starting from flags with exactly one selected task in every
\* ExclusiveOption group, after any sequence of set_option calls that
\* returned without raising, every ExclusiveOption group still has exactly
\* one task with isSelected = "true".
C1_ExclusiveGroupsKeepOneSelected ==
    lastCall.result \in {"none", "ok"} => ExactlyOneSelected(isSelected)

\* C2: a set_option call on a group whose requiredOption is not enabled
\* changes no task's isSelected, whatever the option type, task id and value.
C2_SetOptionGatesOnRequiredOption ==
    ( /\ SetOptionDone
      /\ HasGroup(observed.group_id)
      /\ RequiredOption(observed.group_id) # ""
      /\ ~is_option_enabled(observed.pre, RequiredOption(observed.group_id)) )
    => isSelected = observed.pre

\* C3: set_option with new_value = false on an ExclusiveOption group raises
\* and changes no flag; every set_option call that raises (exclusive
\* deselect, unsupported option type, unknown group, unknown task of a
\* multi-select group) leaves all flags as they were.
C3_FailedSetOptionChangesNothing ==
    SetOptionDone =>
       /\ lastCall.result # "ok" => isSelected = observed.pre
       /\ (observed.group_id \in ExclusiveGroups /\ ~observed.new_value)
             => lastCall.result = "ValueError" /\ isSelected = observed.pre
       /\ ~HasGroup(observed.group_id) => lastCall.result = "KeyError"
       /\ ( /\ HasGroup(observed.group_id)
            /\ OptionType(observed.group_id)
                  \notin {"ExclusiveOption", "MultiSelectOption"} )
             => lastCall.result = "ValueError"
       /\ ( /\ HasGroup(observed.group_id)
            /\ OptionType(observed.group_id) = "MultiSelectOption"
            /\ ~HasTask(observed.task_id) )
             => lastCall.result = "KeyError"

\* An exclusive deselect of the selected task of G1 has raised.
C3_Witness ==
    /\ SetOptionDone
    /\ observed.group_id = "G1"
    /\ ~observed.new_value
    /\ HasTask(observed.task_id)
    /\ observed.pre[_index_tasks_by_id(observed.task_id)] = "true"
    /\ lastCall.result = "ValueError"

\* C4: set_option on a MultiSelectOption group sets the flag of exactly the
\* task named to the value asked for and leaves the flag of every other task,
\* of this group and of the others, as it was.
C4_MultiSelectSetsOnlyTheNamedTask ==
    ( /\ SetOptionDone
      /\ HasGroup(observed.group_id)
      /\ OptionType(observed.group_id) = "MultiSelectOption" )
    => \A i \in TaskIx :
          isSelected[i] = IF InstallTask[i].Id = observed.task_id
                          THEN Flag(observed.new_value) ELSE observed.pre[i]

\* A task of the multi-select group G2 was deselected while its sibling was
\* selected, and the sibling still is.
C4_Witness ==
    /\ SetOptionDone
    /\ observed.group_id = "G2"
    /\ observed.task_id = "C"
    /\ ~observed.new_value
    /\ observed.pre[_index_tasks_by_id("C")] = "true"
    /\ observed.pre[_index_tasks_by_id("CommanderPortraitLoader")] = "true"
    /\ lastCall.result = "ok"


(***************************************************************************)
(* Properties of perform_install (Spec).                                   *)
(***************************************************************************)
\* perform_install was left by the exception of the task executed last.
TaskRaised(error) ==
    /\ pc = "crashed"
    /\ lastCall = InstallCall(error)
    /\ executed # <<>>
LastExecuted == executed[Len(executed)]

\* C5: when a selected BasicJsonMerge task fails with a structural mismatch
\* during perform_install, every selected task that follows it in declaration
\* order is still executed.
C5_MergeFailureSkipsOnlyThatTask ==
    ( /\ TaskRaised("ValueError")
      /\ InstallTask[LastExecuted].jobType = "BasicJsonMerge" )
    => \A k \in DOMAIN tasks : tasks[k] \in Range(executed)

\* C6: when the external installer of a RunProcessAndInstall task exits
\* nonzero, the directory copy of that task is not attempted, the exception
\* leaves perform_install, no selected task after it is executed (nothing
\* further can happen), and what the tasks executed before it did stays done.
C6_FailedInstallerHaltsInstall ==
    TaskRaised("CalledProcessError") =>
       LET id == InstallTask[LastExecuted].Id
       IN  /\ InstallTask[LastExecuted].jobType = "RunProcessAndInstall"
           /\ Effect(id, "run") \in Range(effects)
           /\ Effect(id, "copy") \notin Range(effects)
           /\ executed = SubSeq(tasks, 1, Len(executed))
           /\ ~ENABLED Next
           /\ installed.exists
           /\ Effect("RtConfig.xml", "write") \in Range(effects)
           /\ \A k \in 1..(Len(executed) - 1) :
                 LET task == InstallTask[executed[k]]
                 IN  /\ (task.jobType = "Install" /\ task.Id \notin _TASK_BLACKLIST)
                           => Effect(task.Id, "copy") \in Range(effects)
                     /\ task.jobType = "BasicJsonMerge"
                           => Effect(task.Id, "merge") \in Range(effects)

\* The installer of B failed after the merge task C had run and with the
\* selected task F still to come.
C6_Witness ==
    /\ TaskRaised("CalledProcessError")
    /\ InstallTask[LastExecuted].Id = "B"
    /\ Effect("C", "merge") \in Range(effects)
    /\ Len(executed) < Len(tasks)

\* C10: perform_install executes exactly the tasks selected in its
\* configuration, one per step, in declaration order: what was executed so
\* far is the selected tasks in increasing declaration order with none left
\* out, and when the loop ends every selected task has been executed.
C10_SelectedTasksRunInDeclarationOrder ==
    pc \in {"installing", "crashed"} =>
       /\ \A k \in DOMAIN executed : run_config[executed[k]] = "true"
       /\ \A k, l \in DOMAIN executed : k < l => executed[k] < executed[l]
       /\ \A i \in TaskIx :
             (run_config[i] = "true" /\ executed # <<>> /\ i < LastExecuted)
                => i \in Range(executed)
       /\ (pc = "installing" /\ Len(executed) = Len(tasks))
             => Range(executed) = {i \in TaskIx : run_config[i] = "true"}

\* The loop has ended after five tasks, with unselected tasks between them.
C10_Witness ==
    /\ pc = "installing"
    /\ Len(executed) = Len(tasks)
    /\ executed = <<2, 3, 6, 7, 8>>
    /\ run_config[1] = "false"

\* The write of the installed configuration file, and the tasks' Ids.
ConfigWrite == Effect("RtConfig.xml", "write")
TaskIds == {InstallTask[i].Id : i \in TaskIx}

\* C11: in a non-dry-run install the installed configuration file is written
\* before the first selected task is executed (the write precedes every
\* effect of a task), and no task is executed if that write did not happen.
C11_ConfigPersistedBeforeTasks ==
    /\ pc = "installing" => ~dry_run /\ ConfigWrite \in Range(effects)
    /\ executed # <<>> =>
          /\ ~dry_run
          /\ installed.exists
          /\ \E w \in DOMAIN effects :
                /\ effects[w] = ConfigWrite
                /\ \A k \in DOMAIN effects : effects[k].task \in TaskIds => w < k
    /\ ConfigWrite \notin Range(effects) => executed = <<>>

\* The first selected task has copied its files after the configuration was
\* written.
C11_Witness ==
    /\ pc = "installing"
    /\ executed = <<1>>
    /\ effects = <<Effect("ModTek", "inject"), ConfigWrite, Effect("A", "copy")>>

\* The tasks _install_task returns for without calling a handler.
KnownJobTypes ==
    {"NoOp", "Install", "MultiComponentInstall", "BasicJsonMerge", "DefaultBootConfig",
     "MThreadBootConfig", "RunProcessAndInstall"}
NeverActs(i) ==
    \/ InstallTask[i].Id \in _TASK_BLACKLIST
    \/ InstallTask[i].jobType = "NoOp"
    \/ InstallTask[i].jobType \notin KnownJobTypes

\* C12: a selected task whose Id is in _TASK_BLACKLIST performs no install
\* action whatever its job kind, and neither does a selected task of an
\* unknown job kind or a NoOp task; none of them raises, and the install
\* goes on with the tasks that follow.
C12_SkippedTasksDoNothing ==
    pc \in {"installing", "crashed"} =>
       /\ \A k \in DOMAIN executed :
             NeverActs(executed[k]) =>
                \A e \in DOMAIN effects : effects[e].task # InstallTask[executed[k]].Id
       /\ (executed # <<>> /\ NeverActs(LastExecuted)) =>
             /\ pc = "installing"
             /\ Len(executed) < Len(tasks) => ENABLED InstallNextTask(0)

\* The loop has ended: the blacklisted Install task, the NoOp task and the
\* task of an unknown job kind were executed, and the boot configuration task
\* that follows the blacklisted one has acted.
C12_Witness ==
    /\ pc = "installing"
    /\ Len(executed) = Len(tasks)
    /\ {4, 6, 7, 8} \subseteq Range(executed)
    /\ InstallTask[4].Id \in _TASK_BLACKLIST /\ InstallTask[4].jobType = "Install"
    /\ InstallTask[7].jobType = "NoOp"
    /\ InstallTask[8].jobType \notin KnownJobTypes
    /\ Effect("F", "boot0") \in Range(effects)

\* C25: after every perform_install that is not a dry run, the selection
\* persisted in the installed RtConfig.xml is the selection whose tasks are
\* executed, whether a configuration was passed in or loaded by
\* perform_install itself.
C25_PersistedSelectionIsTheOneExecuted ==
    pc = "installing" =>
       /\ installed.exists
       /\ installed.sel = run_config
       /\ tasks = _get_selected_tasks(installed.sel)

(***************************************************************************)
(* Properties of the copy tasks (CopySpec).                                *)
(***************************************************************************)
CopyTaskEnded == copy_pc \in {"done", "crashed"}
ListedSources == source_paths(copy_task)
ListedTargets == target_paths(copy_task)

\* C21: a MultiComponentInstall task copies the i-th source path to the
\* i-th target path, for increasing i, and requires both lists to be of the
\* same length: every listed source path and every listed target path
\* takes part in exactly one copy and none is left out; lists of different
\* lengths are refused.
C21_EveryListedPathIsCopiedOnce ==
    (/\ CopyTaskEnded
     /\ copy_task.jobType = "MultiComponentInstall"
     /\ copy_task.excludePaths # <<>>)
    => IF Len(ListedSources) = Len(ListedTargets)
       THEN /\ Len(copies) = Len(ListedSources)
            /\ \A k \in DOMAIN copies :
                  /\ copies[k].source_path = ListedSources[k]
                  /\ copies[k].target_path = ListedTargets[k]
       ELSE /\ copy_pc = "crashed"
            /\ copies = <<>>

\* The exclude set of the task as its configuration lists it.
ListedExcludes == Range(split(copy_task.excludePaths, ","))
IsExcluded(name) ==
    \/ <<name>> \in ListedExcludes
    \/ name = "Optionals" /\ <<"Optional">> \in ListedExcludes
\* Everything of the source node is in the target node.
RECURSIVE Holds(_, _)
Holds(target, source) ==
    IF source.kind = "dir"
    THEN /\ target.kind = "dir"
         /\ \A n \in DOMAIN source.entries :
               /\ n \in DOMAIN target.entries
               /\ Holds(target.entries[n], source.entries[n])
    ELSE target = source
\* The copies the task is to make.
ExpectedCopies ==
    IF copy_task.jobType = "Install"
    THEN << <<copy_task.sourcePath, copy_task.targetPath>> >>
    ELSE zip(ListedSources, ListedTargets)

\* C23: for Install and MultiComponentInstall tasks, every top-level entry
\* of a source directory whose name is in the exclude set is not copied and
\* every other top-level entry is copied; with "Optional" in the exclude
\* set an entry named "Optionals" is excluded too; entries of the target
\* that the source does not have are preserved.
C23_CopiesAllButTheExcluded ==
    CopyTaskEnded =>
       /\ Len(copies) = Len(ExpectedCopies)
       /\ \A k \in DOMAIN copies :
             LET source == node_at(rtcache, copies[k].source_path)
                 before == node_at(copies[k].before, copies[k].target_path)
                 after == node_at(copies[k].after, copies[k].target_path)
             IN  source.kind = "dir" =>
                    /\ \A n \in DOMAIN source.entries :
                          IF IsExcluded(n)
                          THEN EntryOf(after, n) = EntryOf(before, n)
                          ELSE Holds(EntryOf(after, n), source.entries[n])
                    /\ \A n \in DOMAIN Entries(before) \ DOMAIN source.entries :
                          EntryOf(after, n) = EntryOf(before, n)

(***************************************************************************)
(* Properties of the boot-config tasks (BootSpec).                         *)
(***************************************************************************)
\* The lines of a text without their line ends.
LinesOf(text) ==
    LET pieces == split(text, "\n")
    IN  IF pieces[Len(pieces)] = <<>> THEN SubSeq(pieces, 1, Len(pieces) - 1)
        ELSE pieces
IsSetting(line) == line # <<>> /\ Head(line) \in {NativeGfxJobs, GfxJobs}
OtherLines(text) == SelectSeq(LinesOf(text), LAMBDA line : ~IsSetting(line))
AppendedBy(jobtype) ==
    IF jobtype = "DefaultBootConfig" THEN << <<NativeGfxJobs>> >>
    ELSE << <<GfxJobs, "1">>, <<NativeGfxJobs, "1">> >>
\* The text the k-th task of boot_log started from.
TextBefore(k) == IF k = 1 THEN boot_original ELSE boot_log[k - 1].contents

\* C22: a boot-config rewrite removes exactly the lines that start with one
\* of the two setting keys, keeps every other line unchanged and in its
\* order, and then appends one line setting native-gfx-jobs to the empty
\* value (DefaultBootConfig) or a line enabling gfx-jobs and a line setting
\* native-gfx-jobs to the worker count (MThreadBootConfig).
C22_RewriteKeepsOtherLinesAndAppends ==
    \A k \in DOMAIN boot_log :
       LinesOf(boot_log[k].contents)
          = OtherLines(TextBefore(k)) \o AppendedBy(boot_log[k].jobType)

\* C26: after any non-empty sequence of boot-config tasks the text depends
\* only on the original text and on the kind of the last task: it is what
\* that task alone makes of the original, it has exactly one
\* native-gfx-jobs line, it has a gfx-jobs line only if the last task was
\* MThreadBootConfig, and the same task applied twice gives what it gives
\* applied once.
C26_LastBootTaskDecidesTheText ==
    \A k \in DOMAIN boot_log :
       LET text == boot_log[k].contents
           lines == LinesOf(text)
           job_count == IF boot_log[k].jobType = "MThreadBootConfig" THEN 1 ELSE 0
       IN  /\ text = set_boot_config_gfx_jobs(boot_original, job_count)
           /\ Cardinality({i \in DOMAIN lines : startswith(lines[i], NativeGfxJobs)}) = 1
           /\ (\E i \in DOMAIN lines : startswith(lines[i], GfxJobs))
                 => boot_log[k].jobType = "MThreadBootConfig"
           /\ (k > 1 /\ boot_log[k - 1].jobType = boot_log[k].jobType)
                 => text = boot_log[k - 1].contents

(***************************************************************************)
(* Properties of the cursor of _App (ViewSpec).                            *)
(***************************************************************************)
\* C24: in every state the controller transitions (navigate group, navigate
\* task, toggle, reset to default, reset to installed, install) reach, the
\* current group index is one of the groups shown and the cursor row one
\* of the tasks of that group, for the configuration loaded last; so too
\* after a reset that loads fewer groups or fewer selectable tasks.
C24_CursorStaysInsideTheTree ==
    view_pc = "running" =>
       /\ _current_group_index \in 0..(Len(view.groups) - 1)
       /\ _cursor_row \in 0..(Len(view.groups[_current_group_index + 1]) - 1)

(***************************************************************************)
(* Properties of _App (AppSpec).                                           *)
(***************************************************************************)
Toggled == appOp.op = "toggle_task"
\* The group and the task under the cursor when the last handler started.
CursorGroup == _groups[appOp.pre.group_index + 1].group
CursorTasks == _groups[appOp.pre.group_index + 1].tasks
CursorTask == CursorTasks[appOp.pre.cursor_row + 1]
\* A group is disabled when it has a requiredOption whose task is not
\* selected.
Enabled(sel, group) ==
    group.requiredOption = "" \/ is_option_enabled(sel, group.requiredOption)
Flip(flag) == IF flag = "true" THEN "false" ELSE "true"
\* Some flag of a task of the group differs between sel and isSelected.
ChangedIn(sel, group) ==
    \E i \in _index_tasks_by_option_group(group.optionId) : isSelected[i] # sel[i]

\* The example of the specification: A (selected) and B in the exclusive
\* group G1, C and D (selected; here CommanderPortraitLoader) in the
\* multi-select group G2; B is at row 1 of group 0 and C at row 0 of group 1.
IxA == _index_tasks_by_id("A")
IxB == _index_tasks_by_id("B")
IxC == _index_tasks_by_id("C")
IxD == _index_tasks_by_id("CommanderPortraitLoader")
\* The flags at the start of the example, whatever the third group holds.
ExampleStart(e, f) ==
    [i \in TaskIx |->
        IF i \in {IxA, IxD} THEN "true"
        ELSE IF i \in {IxB, IxC} THEN "false"
        ELSE IF InstallTask[i].Id = "E" THEN e
        ELSE IF InstallTask[i].Id = "F" THEN f
        ELSE DefaultSelection[i]]
ToggleBThenC ==
    \A e, f \in Flags :
       LET sel == ExampleStart(e, f)
           s1 == toggle_task(sel, 0, 1)
           s2 == toggle_task(s1.sel, 1, 0)
       IN  /\ s1.result = "ok" /\ s2.result = "ok"
           /\ s2.sel[IxB] = "true" /\ s2.sel[IxC] = "true" /\ s2.sel[IxD] = "true"
           /\ s2.sel[IxA] = "false"
           /\ Cardinality(SelectedIn(s2.sel, "G1")) = 1
           /\ \A i \in TaskIx \ {IxA, IxB, IxC} : s2.sel[i] = sel[i]

\* C13: in an enabled group, toggle_task on an unselected task of an
\* ExclusiveOption group selects it and deselects every sibling, and
\* toggle_task on a task of a MultiSelectOption group flips that task's flag
\* only; the flags of the other groups stay.  From A selected, B, C
\* unselected and D selected, toggling B then C gives B, C, D selected and A
\* unselected with exactly one task of the exclusive group selected.
C13_ToggleSelectsOrFlips ==
    /\ (Toggled /\ Enabled(appOp.pre.sel, CursorGroup)) =>
          /\ pc = "idle"
          /\ (CursorGroup.optionType = "ExclusiveOption"
                 /\ appOp.pre.sel[CursorTask] = "false")
              => \A i \in TaskIx :
                    isSelected[i] =
                       IF i = CursorTask THEN "true"
                       ELSE IF InstallTask[i].optionGroupId = CursorGroup.optionId
                            THEN "false" ELSE appOp.pre.sel[i]
          /\ CursorGroup.optionType = "MultiSelectOption"
              => \A i \in TaskIx :
                    isSelected[i] = IF i = CursorTask THEN Flip(appOp.pre.sel[i])
                                    ELSE appOp.pre.sel[i]
    /\ ToggleBThenC

\* C was toggled on after B had been, with D selected: B, C and D are
\* selected and A is not.
C13_Witness ==
    /\ Toggled
    /\ CursorTask = IxC
    /\ appOp.pre.sel[IxB] = "true" /\ appOp.pre.sel[IxC] = "false"
    /\ appOp.pre.sel[IxD] = "true"
    /\ isSelected[IxA] = "false" /\ isSelected[IxB] = "true"
    /\ isSelected[IxC] = "true" /\ isSelected[IxD] = "true"

\* C14 as stated: over any sequence of controller transitions (reset among
\* them), the flags of a group's tasks change only in states where the group
\* is enabled.
C14_FlagsChangeOnlyInEnabledGroups ==
    appOp.op # "none" =>
       \A g \in DOMAIN _groups :
          ChangedIn(appOp.pre.sel, _groups[g].group)
             => Enabled(appOp.pre.sel, _groups[g].group)

\* C14 amended: toggle_task with the cursor in a disabled group changes no
\* task's isSelected, and toggle_task changes flags of an enabled group only
\* (reset reloads every flag, those of disabled groups too).
C14_ToggleChangesOnlyEnabledGroups ==
    Toggled =>
       /\ ~Enabled(appOp.pre.sel, CursorGroup)
             => isSelected = appOp.pre.sel /\ pc = "idle"
       /\ \A g \in DOMAIN _groups :
             ChangedIn(appOp.pre.sel, _groups[g].group)
                => Enabled(appOp.pre.sel, _groups[g].group)

\* toggle_task was called on an unselected task of the multi-select group
\* G2 while B, which G2 requires, was not selected.
C14_Witness ==
    /\ Toggled
    /\ CursorGroup.optionId = "G2"
    /\ appOp.pre.sel[IxB] = "false"
    /\ appOp.pre.sel[CursorTask] = "false"
    /\ isSelected = appOp.pre.sel

\* C16: after reset-to-default every flag equals its value in the default
\* configuration, and after reset-to-installed its value in the installed
\* configuration (in the default one when there is no installed one),
\* whatever toggles came before.
C16_ResetDiscardsEdits ==
    appOp.op = "reset" =>
       isSelected = IF appOp.preserve_existing /\ installed.exists
                    THEN installed.sel ELSE DefaultSelection

\* reset-to-installed brought back an installed selection other than the
\* default one over edited flags.
C16_Witness ==
    /\ appOp.op = "reset"
    /\ appOp.preserve_existing
    /\ installed.exists /\ installed.sel # DefaultSelection
    /\ appOp.pre.sel # installed.sel
    /\ appOp.pre.sel # DefaultSelection
    /\ isSelected = installed.sel

Lower(a, b) == IF a < b THEN a ELSE b
Higher(a, b) == IF a > b THEN a ELSE b
\* val brought into [lo, hi]
Within(val, lo, hi) == Higher(lo, Lower(val, hi))

\* C17: navigate_group(delta) sets the group index to
\* clamp(index + delta, 0, groupCount - 1) and the row to 0 exactly when the
\* group index changed; navigate_task(delta) sets the row to
\* clamp(row + delta, 0, taskCount - 1) of the current group and leaves the
\* group index; neither changes a flag.
C17_NavigationClampsTheCursor ==
    /\ appOp.op = "navigate_group" =>
          /\ _current_group_index =
                Within(appOp.pre.group_index + appOp.delta, 0, Len(_groups) - 1)
          /\ _cursor_row = IF _current_group_index # appOp.pre.group_index
                           THEN 0 ELSE appOp.pre.cursor_row
          /\ isSelected = appOp.pre.sel
    /\ appOp.op = "navigate_task" =>
          /\ _cursor_row =
                Within(appOp.pre.cursor_row + appOp.delta, 0, Len(CursorTasks) - 1)
          /\ _current_group_index = appOp.pre.group_index
          /\ isSelected = appOp.pre.sel

\* navigate_group(1) at the last group with the cursor on its second row:
\* the index is clamped and the row stays.
C17_Witness ==
    /\ appOp.op = "navigate_group"
    /\ appOp.delta = 1
    /\ appOp.pre.group_index = Len(_groups) - 1
    /\ appOp.pre.cursor_row = 1
    /\ _current_group_index = Len(_groups) - 1
    /\ _cursor_row = 1

\* C18: in dry-run mode install is a no-op: perform_install executes no
\* task, does not run the injector and does not write the installed
\* configuration, whatever is selected.
C18_DryRunInstallIsNoOp ==
    [][(dry_run /\ appOp'.op = "install") =>
          /\ UNCHANGED << installed, jsonTarget, isSelected >>
          /\ pc' = "idle"
          /\ executed' = <<>>
          /\ effects' = <<>>
          /\ lastCall' = InstallCall("ok")]_vars

\* install returned in dry-run mode with edited flags and tasks selected.
C18_Witness ==
    /\ dry_run
    /\ appOp.op = "install"
    /\ lastCall = InstallCall("ok")
    /\ _get_selected_tasks(isSelected) # <<>>
    /\ isSelected # installed.sel

(***************************************************************************)
(* Properties of _App.run (RunSpec).                                       *)
(***************************************************************************)
\* C15: once the exit key (esc or q) has been handled the controller accepts
\* no further input: no navigation, toggle, reset or install handler is
\* called after exit, keys queued in the same batch as the exit key
\* included; a key calls at most one handler.
C15_NoTransitionAfterExit ==
    /\ handled.op # "none" => handled.running
    /\ run_pc = "exited" => ~ENABLED RunNext

(***************************************************************************)
(* Properties of _main (MainSpec).                                         *)
(***************************************************************************)
\* C19: a run with the dry-run flag changes nothing on the file system at
\* any step: no directory is created, no symlink made, no repository cloned
\* or updated, no configuration written and no task executed.
C19_DryRunMutatesNothing ==
    dry_run => /\ mutations = <<>>
               /\ effects = <<>>
               /\ executed = <<>>

(***************************************************************************)
(* Properties of get_configuration_tree (LoadSpec).                        *)
(***************************************************************************)
\* C20: loading a configuration in which a task's optionGroupId names no
\* declared option group fails instead of giving a tree: in every loaded
\* tree every task belongs to an existing group, and no selected task
\* outside every group is in the execution plan.
C20_DanglingGroupFailsToLoad ==
    /\ tree.loaded =>
          \A i \in DOMAIN raw.InstallTask :
             raw.InstallTask[i].optionGroupId \in tree.groups
    /\ \A k \in DOMAIN plan :
          raw.InstallTask[plan[k]].optionGroupId \in tree.groups

(***************************************************************************)
(* Properties of _merge_dicts (MergeSpec).                                 *)
(***************************************************************************)
Merged == mStage # "loaded" /\ mStage # "off"

\* r is a merged with b key by key.
RECURSIVE MergedKeyByKey(_, _, _)
MergedKeyByKey(a, b, r) ==
    /\ Keys(r) = Keys(a) \cup Keys(b)
    /\ Len(r) = Cardinality(Keys(r))
    /\ \A key \in Keys(r) :
          IF key \notin Keys(a) THEN Get(r, key) = Get(b, key)
          ELSE IF key \notin Keys(b) THEN Get(r, key) = Get(a, key)
          ELSE IF is_dict(Get(a, key))
               THEN /\ is_dict(Get(b, key))
                    /\ is_dict(Get(r, key))
                    /\ MergedKeyByKey(Get(a, key).d, Get(b, key).d, Get(r, key).d)
          ELSE IF is_list(Get(a, key))
               THEN /\ is_list(Get(b, key))
                    /\ Get(r, key) = List(Get(a, key).l \o Get(b, key).l)
          ELSE Get(r, key) = Get(b, key)

\* C7: where merge succeeds the result is defined key by key (a key absent
\* from base takes overlay's value, a map is merged recursively, a sequence
\* becomes base's followed by overlay's, a scalar takes overlay's value of
\* any type, a base key absent from overlay is unchanged), and what merge
\* returns is the mutated base.
C7_MergeIsKeyByKey ==
    (Merged /\ mRet.ok) => /\ MergedKeyByKey(mA, mB, mRet.val)
                           /\ mRet.val = mBase

\* A merge returned that met a list and a dict of base, replaced a scalar by
\* a container or inserted a key.
C7_Witness ==
    /\ Merged /\ mRet.ok
    /\ \E key \in Keys(mA) \cap Keys(mB) :
          is_list(Get(mA, key)) /\ Get(mB, key).l # <<>>
    /\ \E key \in Keys(mA) \cap Keys(mB) :
          is_dict(Get(mA, key)) /\ Get(mB, key).d # <<>>

Chained == mStage = "chained"
Example1 == <<[k |-> "a", v |-> List(<<1>>)]>>
Example2 == <<[k |-> "a", v |-> List(<<2>>)]>>
Example12 == <<[k |-> "a", v |-> List(<<1, 2>>)]>>
Example21 == <<[k |-> "a", v |-> List(<<2, 1>>)]>>
\* merge({a:[1]}, {a:[2]}) = {a:[1,2]} and merge({a:[2]}, {a:[1]}) = {a:[2,1]}
NotCommutative ==
    (mStage \in {"swapped", "chained"} /\ mA = Example1 /\ mB = Example2)
    => /\ mRet.ok /\ mRet.val = Example12
       /\ mBA.ok /\ mBA.val = Example21

\* C8 as stated: merge(merge(a, b), c) and merge(a, merge(b, c)) have the
\* same outcome (the same map, or both fail), and merge is not commutative.
C8_Associative ==
    /\ Chained => /\ mLeft.ok = mRight.ok
                  /\ mLeft.ok => mLeft.val = mRight.val
    /\ NotCommutative

\* C8 amended: whenever merge(merge(a, b), c) succeeds, merge(a, merge(b, c))
\* succeeds with the same map (the converse fails); merge is not commutative.
C8_AssociativeWhereLeftSucceeds ==
    /\ Chained => (mLeft.ok => mRight.ok /\ mLeft.val = mRight.val)
    /\ NotCommutative

\* {a:[1]}, {a:[2]} merged both ways, then chained with a third list.
C8_Witness ==
    /\ Chained
    /\ mA = Example1 /\ mB = Example2 /\ mC = Example1
    /\ mLeft.ok /\ mRight.ok
    /\ mRet.val # mBA.val

\* Some key of b is a dict in a and not in b, or a list in a and not in b,
\* at any depth reached through dicts of both.
RECURSIVE Mismatch(_, _)
Conflict(a_value, b_value) ==
    \/ is_dict(a_value) /\ ~is_dict(b_value)
    \/ is_list(a_value) /\ ~is_list(b_value)
    \/ is_dict(a_value) /\ is_dict(b_value) /\ Mismatch(a_value.d, b_value.d)
Mismatch(a, b) ==
    \E i \in DOMAIN b : HasKey(a, b[i].k) /\ Conflict(Get(a, b[i].k), b[i].v)
\* The position in b of the first key that cannot be merged into a.
FirstOffending(a, b) ==
    CHOOSE j \in DOMAIN b :
        /\ HasKey(a, b[j].k) /\ Conflict(Get(a, b[j].k), b[j].v)
        /\ \A i \in 1..(j - 1) :
              ~(HasKey(a, b[i].k) /\ Conflict(Get(a, b[i].k), b[i].v))
Without(a, key) == SelectSeq(a, LAMBDA item : item.k # key)

\* C9: merge fails whenever a key is a map in base and not in overlay, or a
\* sequence in base and not in overlay, at any depth; the base then holds the
\* changes of the overlay keys before the offending one (merged key by key),
\* the offending key keeps its container, and the overlay keys after it are
\* not applied.
C9_MergeFailureIsNotAtomic ==
    Merged =>
       /\ Mismatch(mA, mB) <=> ~mRet.ok
       /\ ~mRet.ok =>
             LET j == FirstOffending(mA, mB)
                 key == mB[j].k
                 before == SubSeq(mB, 1, j - 1)
             IN  /\ MergedKeyByKey(Without(mA, key), before, Without(mBase, key))
                 /\ HasKey(mBase, key)
                 /\ is_dict(Get(mBase, key)) = is_dict(Get(mA, key))
                 /\ is_list(Get(mBase, key)) = is_list(Get(mA, key))
                 /\ \A i \in (j + 1)..Len(mB) :
                       IF HasKey(mA, mB[i].k)
                       THEN Get(mBase, mB[i].k) = Get(mA, mB[i].k)
                       ELSE ~HasKey(mBase, mB[i].k)

\* A merge failed on its second key after the first had changed the base.
C9_Witness ==
    /\ Merged /\ ~mRet.ok
    /\ FirstOffending(mA, mB) = 2
    /\ mBase # mA

====
